---------------------------- MODULE Spec2Model ----------------------------
(***************************************************************************)
(* Model of the persistence thread of the content-node storage layer       *)
(* (storage/persistence/persistencethread.cpp): the split and join         *)
(* handlers, the bucket database (index) they update, the queue of pending *)
(* operations they remap and the bucket locks / database guards they take. *)
(*                                                                         *)
(* Spec      one persistence thread handling one command atomically, from  *)
(*           any state of the database and the queue.                      *)
(* SpecConc  several persistence threads, the structural handlers cut at   *)
(*           every point where they wait for a bucket lock or a guard.     *)
(* FairConc  SpecConc with weak fairness on every thread's next step.      *)
(* SpecOps   the dispatcher of put, remove and update, with or without a   *)
(*           sequenced executor, up to the finishing tasks.                *)
(* SpecDocs  the dispatcher of put, remove, update and get, no executor.   *)
(* SpecBucketOps  the dispatcher of the commands on a whole bucket.        *)
(* SpecLoop  the dispatch loop with flush() and the destructor.            *)
(* SpecJoins one join of arbitrary bucket ids.                             *)
(* SpecEnd   put, get and split against a provider that keeps documents.   *)
(* SpecSplits  one split of the root bucket, remove entries and owners.    *)
(* SpecReplies  the dispatch loop handed commands and replies.             *)
(* FairLoop  SpecReplies with a loop that keeps making progress.           *)
(***************************************************************************)
EXTENDS Integers, Sequences, FiniteSets, TLC

VARIABLES
    index,      \* bucket database: canonical bucket id -> [disk, info]
    queue,      \* operations queued in the FileStorHandler, not yet executed
    config,     \* _env._config.enableMultibitSplitOptimalization
    last,       \* outcome of the command handled last (reply, engine calls, ...)
    pc,         \* SpecConc: position of every persistence thread in its handler
    wcmd,       \* SpecConc: the command (and locals) every thread is handling
    bucketLocks,\* SpecConc: FileStorHandler bucket locks, <<bucket id, thread>>
    guards,     \* SpecConc: bucket database guards held, sequence per thread
    done,       \* SpecConc, SpecOps: commands handed to the threads so far
    executor,   \* whether a sequenced executor was given (_sequencedExecutor)
    replies,    \* SpecOps: the replies sent so far, in the order they were sent
    pending,    \* SpecOps: asynchronous provider calls that have not completed
    lanes,      \* SpecOps: the tasks waiting in each lane of the executor
    notFound,   \* the notFound counters of the metrics, per kind of command
    loop,       \* SpecLoop: the dispatch loop, its monitor, flush() and the destructor
    store       \* SpecEnd: the documents the provider holds, per bucket

vars == <<index, queue, config, last, pc, wcmd, bucketLocks, guards, done,
          executor, replies, pending, lanes, notFound, loop, store>>
seqVars == <<index, queue, config, last>>
asyncVars == <<executor, replies, pending, lanes, notFound, loop, store>>
threadVars == <<pc, wcmd, bucketLocks, guards>>
concVars == <<pc, wcmd, bucketLocks, guards, done, asyncVars>>

-----------------------------------------------------------------------------
(* Bounds of the model.                                                    *)

MaxQueue == 1          \* queued operations at most
MaxTime == 2           \* last-modified timestamps 0..MaxTime
NumWorkers == 2        \* persistence threads of SpecConc
NumLanes == 2          \* lanes of the sequenced executor
MaxCommands == 2       \* commands handed to the threads or the dispatcher

(* Program constants.                                                      *)

MaxUsedBits == 58      \* hard ceiling of handleSplitBucket
CountBitsStart == 58   \* a raw bucket id keeps its used-bits count above bit 57
Partition == 0         \* _env._partition, the disk of this thread

Disks == {0, 1}

-----------------------------------------------------------------------------
(* document::BucketId.  A raw id is a 64 bit word: the used-bits count in  *)
(* the 6 high bits, the location in the 58 low bits.  It is modelled as    *)
(* [bits, loc] with loc the set of positions (< 58) of the location bits   *)
(* that are set.                                                           *)

Max(S) == CHOOSE x \in S : \A y \in S : y <= x

\* BucketId(useBits, id): takes the location bits of id, drops its count bits
BucketId(useBits, id) == [bits |-> useBits, loc |-> id.loc]

\* getId(): count bits plus the location masked to the used bits
getId(b) == [bits |-> b.bits, loc |-> {p \in b.loc : p < b.bits}]

\* id | (uint64_t(1) << n); a bit at or above 58 lands in the count bits,
\* which the BucketId constructor throws away
OrBit(id, n) == [id EXCEPT !.loc = IF n < CountBitsStart THEN @ \cup {n} ELSE @]

\* operator==: ids are equal when their getId() are
BucketEq(a, b) == getId(a) = getId(b)

\* numeric order of two location bit sets
LocLess(s, t) == s # t /\ Max((s \ t) \cup (t \ s)) \in t

\* operator<: numeric order of getId(): lowest used bits, then lowest location
BucketLess(a, b) ==
    LET x == getId(a)
        y == getId(b)
    IN  x.bits < y.bits \/ (x.bits = y.bits /\ LocLess(x.loc, y.loc))

\* (variant: the location is compared whole, not masked to a's used bits)
containsUnmasked(a, b) ==
    /\ b.bits >= a.bits
    /\ b.loc = a.loc

\* a.contains(b)
contains(a, b) ==
    /\ b.bits >= a.bits
    /\ getId(BucketId(a.bits, b)) = getId(a)

\* the bucket of a document: all location bits of the document id
DocBucket(docLoc) == [bits |-> MaxUsedBits, loc |-> docLoc]


-----------------------------------------------------------------------------
(* api::BucketInfo and the entries of the bucket database.                 *)

BucketInfo(crc, docs, meta, lastMod, rdy, act) ==
    [checksum |-> crc, docCount |-> docs, metaCount |-> meta,
     lastModified |-> lastMod, ready |-> rdy, active |-> act]

\* api::BucketInfo(): what a freshly created database entry holds
DefaultInfo == BucketInfo(0, 0, 0, 0, FALSE, FALSE)

\* what the provider may answer to getBucketInfo: an empty bucket, or one
\* document last modified at some time 1..MaxTime
EngineInfos ==
    {DefaultInfo} \cup {BucketInfo(7, 1, 1, t, FALSE, FALSE) : t \in 1..MaxTime}

\* what the provider may answer for a split target: empty, or with content
TargetInfoAnswers == {DefaultInfo, BucketInfo(7, 1, 1, 1, FALSE, FALSE)}

Entry(d, i) == [disk |-> d, info |-> i]

-----------------------------------------------------------------------------
(* The buckets, documents and commands the model draws its inputs from.    *)

B(n, l) == [bits |-> n, loc |-> l]

Root == B(1, {0})
Left == B(2, {0})
Right == B(2, {0, 1})
Deep == B(MaxUsedBits - 1, {0})
Full == B(MaxUsedBits, {0})

\* buckets that may have a database entry, or queued operations, at start
InitBuckets == {Root, Left, Right}

\* locations of the documents of queued operations
DocLocs == SUBSET {0, 1}

QueueOps ==
    {[bucket |-> b, loc |-> l] : b \in InitBuckets, l \in DocLocs}

SeqsUpTo(S, n) == UNION {[1..k -> S] : k \in 0..n}

\* every queued operation is queued to a bucket that holds its document
InitQueues ==
    {q \in SeqsUpTo(QueueOps, MaxQueue) :
        \A i \in DOMAIN q : contains(q[i].bucket, DocBucket(q[i].loc))}

\* the entries a bucket may have at start: any provider info; only the root
\* bucket may sit on another disk than this thread's
InitEntries(b) ==
    {Entry(d, i) : d \in (IF b = Root THEN Disks ELSE {Partition}), i \in EngineInfos}

InitIndexes ==
    {f \in UNION {[S -> UNION {InitEntries(b) : b \in InitBuckets}] :
                     S \in SUBSET InitBuckets} :
        \A b \in DOMAIN f : f[b] \in InitEntries(b)}

SplitCommands ==
    {[bucket |-> Root, maxSplitBits |-> m] : m \in 1..3}
    \cup {[bucket |-> Deep, maxSplitBits |-> MaxUsedBits],
          [bucket |-> Full, maxSplitBits |-> MaxUsedBits + 1]}

\* a bucket with the root's used bits + 1 that the root does not contain
Outside == B(2, {1})

JoinCommands ==
    {[bucket |-> Root, sources |-> ss] :
        ss \in [1..2 -> {Left, Right}]
               \cup {<<Left>>, <<Left, Right, Left>>, <<Root, Left>>, <<Left, Root>>,
                     <<Outside, Right>>, <<Right, Outside>>}}

\* spi::Result of a provider call: no error, or an error code and message
SpiOk == [errorCode |-> "NONE", errorMessage |-> ""]
SpiErrors ==
    {[errorCode |-> "TRANSIENT_ERROR", errorMessage |-> "busy"],
     [errorCode |-> "PERMANENT_ERROR", errorMessage |-> "disk gone"]}
SpiResults == {SpiOk} \cup SpiErrors

hasError(result) == result.errorCode # "NONE"

\* one call of the provider, with what it was given and what it answered
Call(name, args, result) == [call |-> name, args |-> args, result |-> result]

\* PersistenceUtil::convertErrorCode: the api::ReturnCode of a provider error
convertErrorCode(result) ==
    CASE result.errorCode = "NONE" -> "OK"
      [] result.errorCode = "TIMESTAMP_EXISTS" -> "TIMESTAMP_EXIST"
      [] result.errorCode = "TRANSIENT_ERROR" -> "INTERNAL_FAILURE"
      [] result.errorCode = "FATAL_ERROR" -> "INTERNAL_FAILURE"
      [] result.errorCode = "RESOURCE_EXHAUSTED" -> "NO_SPACE"
      [] result.errorCode = "PERMANENT_ERROR" -> "DISK_FAILURE"
      [] OTHER -> "INTERNAL_FAILURE"

-----------------------------------------------------------------------------
(* The outcome of a handled command, as the tracker and the notification   *)
(* guard hold it when the handler returns.                                 *)

(* pre is the database and queue the handler started from.                 *)

Outcome(pre, op, cmd, code, msg, calls, notified, targets, splitInfo) ==
    [pre |-> pre, op |-> op, cmd |-> cmd, code |-> code, message |-> msg,
     calls |-> calls, notified |-> notified, targets |-> targets,
     splitInfo |-> splitInfo]

NoOutcome ==
    Outcome([index |-> <<>>, queue |-> <<>>], "none", <<>>, "OK", "", <<>>, <<>>, <<>>, <<>>)

\* tracker->fail(code, message) followed by return tracker
Failed(pre, op, cmd, code, msg, calls) ==
    Outcome(pre, op, cmd, code, msg, calls, <<>>, <<>>, <<>>)

\* the database and queue as a handler finds them
Pre == [index |-> index, queue |-> queue]

-----------------------------------------------------------------------------
(* Split: PersistenceThread::handleSplitBucket.                            *)

\* (variant: the used-bits ceiling is tested with > instead of >=)
SplitIllegalOffByOne(cmd) ==
    \/ cmd.bucket.bits > MaxUsedBits
    \/ cmd.maxSplitBits <= cmd.bucket.bits

\* the two parameter checks that open the handler
SplitIllegal(cmd) ==
    \/ cmd.bucket.bits >= MaxUsedBits
    \/ cmd.maxSplitBits <= cmd.bucket.bits

SplitIllegalMessage(cmd) ==
    IF cmd.bucket.bits >= MaxUsedBits
    THEN "Can't split anymore since maximum split bits is already reached"
    ELSE "Max lit bits must be set higher than the number of bits used in the bucket to split"

\* (variant: the second target sets the bit above the new one)
CanonicalTargetsShiftedBit(src) ==
    <<BucketId(src.bits + 1, getId(src)),
      BucketId(src.bits + 1, OrBit(getId(src), src.bits + 1))>>

\* the fallback targets: one more used bit, the new bit clear and set
CanonicalTargets(src) ==
    <<BucketId(src.bits + 1, getId(src)),
      BucketId(src.bits + 1, OrBit(getId(src), src.bits))>>

\* SplitBitDetector::detectSplit: nothing found, a failure, or two targets at
\* a split bit above the source's used bits and within maxSplitBits that
\* differ in their highest used bit
DetectSplitResults(cmd) ==
    LET src == getId(cmd.bucket)
        top == IF cmd.maxSplitBits < MaxUsedBits THEN cmd.maxSplitBits ELSE MaxUsedBits
        ok  == {[kind |-> "ok",
                 targets |-> <<B(b, src.loc \cup x), B(b, src.loc \cup x \cup {b - 1})>>,
                 reason |-> ""] :
                    b \in {c \in (src.bits + 1)..(src.bits + 2) : c <= top},
                    x \in SUBSET {src.bits}}
        valid(r) == \A p \in r.targets[1].loc : p < r.targets[1].bits - 1
    IN  {[kind |-> "empty", targets |-> <<>>, reason |-> ""],
         [kind |-> "failed", targets |-> <<>>, reason |-> "no split bit"]}
        \cup {r \in ok : valid(r)}

\* the targetInfo the handler may go on with: what the detector found when
\* it is enabled, the canonical targets when it is disabled or found nothing
TargetInfos(cmd, multibit) ==
    LET canonical == [kind |-> "ok", targets |-> CanonicalTargets(cmd.bucket), reason |-> ""]
    IN  IF multibit
        THEN {IF d.kind = "empty" THEN canonical ELSE d : d \in DetectSplitResults(cmd)}
        ELSE {canonical}

\* PersistenceUtil::lockAndGetDisk: the disk of the bucket's database entry,
\* or this thread's disk for a bucket that has none
lockAndGetDisk(idx, b) ==
    IF getId(b) \in DOMAIN idx THEN idx[getId(b)].disk ELSE Partition

\* which of the two split targets a queued operation goes to (0: neither)
SplitTargetOf(op, t1, t2) ==
    IF contains(t1, DocBucket(op.loc)) THEN 1
    ELSE IF contains(t2, DocBucket(op.loc)) THEN 2
    ELSE 0

\* FileStorHandler::remapQueueAfterSplit: operations queued to the source move
\* to the target that contains their document
remapQueueAfterSplit(q, src, t1, t2) ==
    LET to(op) == IF getId(op.bucket) = getId(src) THEN SplitTargetOf(op, t1, t2) ELSE 0
        moved(op) == CASE to(op) = 1 -> [op EXCEPT !.bucket = getId(t1)]
                       [] to(op) = 2 -> [op EXCEPT !.bucket = getId(t2)]
                       [] OTHER -> op
    IN  [queue |-> [i \in DOMAIN q |-> moved(q[i])],
         foundInQueue |-> <<\E i \in DOMAIN q : to(q[i]) = 1,
                            \E i \in DOMAIN q : to(q[i]) = 2>>]

\* the database with the entries of keys ks dropped
Without(idx, ks) == [k \in (DOMAIN idx) \ ks |-> idx[k]]

\* the database with key k bound to entry e
With(idx, k, e) == [x \in (DOMAIN idx) \cup {k} |-> IF x = k THEN e ELSE idx[x]]

\* (variant: the info of an empty target is written as the provider gave it)
FakeContentSkipped(info) == info

\* an empty target that has operations queued to it is kept, as if it had content
FakeContent(info) == IF info.metaCount = 0 THEN [info EXCEPT !.metaCount = 1] ELSE info

\* (variant: the entry of a target is written even when the target is empty)
TargetKeptAlways(found, info) == TRUE

\* whether the handler writes (rather than removes) the entry of a target
TargetKept(found, info) == found \/ info.metaCount > 0

\* the database after the loop over the targets: entry written or removed
WriteTargets(idx, targets, disks, infos, found) ==
    LET step(ix, i) ==
            IF TargetKept(found[i], infos[i])
            THEN With(ix, getId(targets[i]), Entry(disks[i], FakeContent(infos[i])))
            ELSE Without(ix, {getId(targets[i])})
    IN  step(step(idx, 1), 2)

\* (variant: the source entry is never removed)
RemoveSourceSkipped(idx, src) == idx

\* if (sourceEntry.exist()) sourceEntry.remove()
RemoveSource(idx, src) == Without(idx, {getId(src)})

\* everything the handler does once the provider's split has succeeded
SplitCommit(idx, q, cmd, targets, disks, infos, ownershipChanged, calls) ==
    LET src   == getId(cmd.bucket)
        remap == remapQueueAfterSplit(q, src, targets[1], targets[2])
        found == remap.foundInQueue
        kept(i) == TargetKept(found[i], infos[i])
        recreated(i) == kept(i) /\ infos[i].metaCount = 0
        note(i) == IF ownershipChanged
                   THEN <<[bucket |-> getId(targets[i]), info |-> infos[i]]>> ELSE <<>>
        srcNote == IF ownershipChanged /\ src \in DOMAIN idx
                   THEN <<[bucket |-> src, info |-> idx[src].info]>> ELSE <<>>
        listed(i) == IF kept(i)
                     THEN <<[bucket |-> getId(targets[i]), info |-> FakeContent(infos[i])]>>
                     ELSE <<>>
        create(i) == IF recreated(i)
                     THEN <<Call("createBucket", <<getId(targets[i]), disks[i]>>, SpiOk)>>
                     ELSE <<>>
        query(i) == <<Call("getBucketInfo", <<getId(targets[i]), disks[i]>>, infos[i])>>
    IN  [index |-> RemoveSource(WriteTargets(idx, targets, disks, infos, found), src),
         queue |-> remap.queue,
         last  |-> Outcome([index |-> idx, queue |-> q], "split", cmd, "OK", "",
                           calls \o query(1) \o query(2) \o create(1) \o create(2),
                           note(1) \o note(2) \o srcNote,
                           targets,
                           listed(1) \o listed(2))]

\* (variant: the result of the provider's split is not looked at)
SplitResultIgnored(result) == FALSE

\* if (result.hasError()) after _spi.split
SplitResultFailed(result) == hasError(result)

\* BucketOwnershipNotifier::getOwnerDistributorForBucket: the distributor a
\* bucket belongs to, here told by the second bit of its location
OwnerOf(b) == IF 1 \in getId(b).loc THEN 1 ELSE 0

\* BucketOwnershipNotifier::distributorOwns
distributorOwns(distributor, b) == OwnerOf(b) = distributor

\* what distributorOwns may answer when the owners are left open
AnyOwner(cmd) == BOOLEAN

\* (variant: the sending distributor is taken to own every bucket)
SourceOwnedAlways(cmd) == {TRUE}

\* distributorOwns(cmd.getSourceIndex(), cmd.getBucket())
SourceOwned(cmd) == {distributorOwns(cmd.sourceIndex, cmd.bucket)}

\* the handler, for commands of the set cmds, a provider that answers
\* getBucketInfo for a target with one of answers, and a notifier that
\* answers distributorOwns for the command with one of owners[cmd]
SplitBucket(cmds, answers, owners) ==
    /\ last.op = "none"
    /\ \E cmd \in cmds :
        IF SplitIllegal(cmd)
        THEN /\ last' = Failed(Pre, "split", cmd, "ILLEGAL_PARAMETERS", SplitIllegalMessage(cmd), <<>>)
             /\ UNCHANGED <<index, queue>>
        ELSE \E targetInfo \in TargetInfos(cmd, config) :
            LET probe == IF config THEN <<Call("iterate", <<cmd.bucket>>, targetInfo.kind)>>
                         ELSE <<>>
            IN  IF targetInfo.kind = "failed"
                THEN /\ last' = Failed(Pre, "split", cmd, "INTERNAL_FAILURE", targetInfo.reason, probe)
                     /\ UNCHANGED <<index, queue>>
                ELSE \E result \in SpiResults :
                    LET d1 == lockAndGetDisk(index, targetInfo.targets[1])
                        d2 == lockAndGetDisk(index, targetInfo.targets[2])
                        calls == probe \o <<Call("split", <<cmd.bucket, targetInfo.targets,
                                                           <<d1, d2>>>>, result)>>
                    IN
                    IF SplitResultFailed(result)
                    THEN /\ last' = Failed(Pre, "split", cmd, convertErrorCode(result),
                                           result.errorMessage, calls)
                         /\ UNCHANGED <<index, queue>>
                    ELSE \E i1 \in answers, i2 \in answers, owns \in owners[cmd] :
                        LET c == SplitCommit(index, queue, cmd, targetInfo.targets,
                                             <<d1, d2>>, <<i1, i2>>, ~owns, calls)
                        IN  /\ index' = c.index
                            /\ queue' = c.queue
                            /\ last' = c.last
    /\ UNCHANGED <<config, concVars>>

HandleSplitBucket ==
    SplitBucket(SplitCommands, TargetInfoAnswers, [cmd \in SplitCommands |-> AnyOwner(cmd)])

\* a bucket that holds no document, only the entry of a removed one
TombstoneInfo == BucketInfo(5, 0, 1, 1, FALSE, FALSE)

\* what the provider may answer for a split target, remove entries included
TargetMetaAnswers == TargetInfoAnswers \cup {TombstoneInfo}

\* the distributors a command may come from
Distributors == {0, 1}

\* the handler for a split of the root bucket by one bit
HandleSplitOfRoot ==
    LET cmds == {[bucket |-> Root, maxSplitBits |-> 3, sourceIndex |-> d] : d \in Distributors}
    IN  SplitBucket(cmds, TargetMetaAnswers, [cmd \in cmds |-> SourceOwned(cmd)])

-----------------------------------------------------------------------------
(* Join: PersistenceThread::validateJoinCommand and handleJoinBuckets.     *)

\* the message of the first check that fails, "" when the command is sane
JoinValidation(cmd) ==
    LET n == Len(cmd.sources)
        bad(i) == \/ BucketEq(cmd.sources[i], cmd.bucket)
                  \/ ~contains(cmd.bucket, cmd.sources[i])
        firstBad == CHOOSE i \in 1..n : bad(i) /\ \A j \in 1..(i - 1) : ~bad(j)
    IN  IF n # 2 THEN "Join needs exactly two buckets to be joined together"
        ELSE IF \A i \in 1..n : ~bad(i) THEN ""
        ELSE IF BucketEq(cmd.sources[firstBad], cmd.bucket)
             THEN "Join had both source and target bucket"
             ELSE "Source bucket is not contained in target"

\* (variant: containment of the sources in the target is not verified)
validateJoinCommandNoContainment(cmd) ==
    /\ Len(cmd.sources) = 2
    /\ \A i \in 1..2 : ~BucketEq(cmd.sources[i], cmd.bucket)

validateJoinCommand(cmd) == JoinValidation(cmd) = ""

\* (variant: the sources are taken in the order of the command)
UnsortedSources(ss) == ss

\* std::sort of the two source buckets
SortedSources(ss) ==
    IF BucketLess(ss[2], ss[1]) THEN <<ss[2], ss[1]>> ELSE ss

\* (variant: an existing destination entry keeps its disk)
JoinCreateDestKeepDisk(idx, dest) ==
    IF getId(dest) \in DOMAIN idx THEN idx
    ELSE With(idx, getId(dest), Entry(Partition, DefaultInfo))

\* the destination entry is created when missing and put on this thread's disk
JoinCreateDest(idx, dest) ==
    With(idx, getId(dest),
         Entry(Partition,
               IF getId(dest) \in DOMAIN idx THEN idx[getId(dest)].info ELSE DefaultInfo))

\* the disks the two source locks report; the second lock is only taken (and
\* its disk only known) when the sources differ
JoinLockDisks(idx, ss) ==
    <<lockAndGetDisk(idx, ss[1]),
      IF BucketEq(ss[1], ss[2]) THEN 0 ELSE lockAndGetDisk(idx, ss[2])>>

\* FileStorHandler::remapQueueAfterJoin: operations queued to the source are
\* queued to the destination instead
remapQueueAfterJoin(q, src, dest) ==
    [i \in DOMAIN q |->
        IF getId(q[i].bucket) = getId(src) THEN [q[i] EXCEPT !.bucket = getId(dest)]
        ELSE q[i]]

\* (variant: the time of the source seen last wins, not the maximum)
SourceLastModifiedNoMax(idx, src, lastModified) ==
    IF getId(src) \in DOMAIN idx THEN idx[getId(src)].info.lastModified ELSE lastModified

\* lastModified = std::max(lastModified, entry->info.getLastModified())
SourceLastModified(idx, src, lastModified) ==
    IF getId(src) \in DOMAIN idx /\ idx[getId(src)].info.lastModified > lastModified
    THEN idx[getId(src)].info.lastModified
    ELSE lastModified

\* (variant: the source entry is left in the database)
JoinRemoveSourceSkipped(idx, src) == idx

\* if (entry.exist()) entry.remove()
JoinRemoveSource(idx, src) == Without(idx, {getId(src)})

\* the destination gets the sources' last-modified time unless it has its own
JoinUpdateDest(idx, dest, lastModified) ==
    LET d == getId(dest)
        e == IF d \in DOMAIN idx THEN idx[d] ELSE Entry(Partition, DefaultInfo)
    IN  With(idx, d,
             IF e.info.lastModified = 0
             THEN [e EXCEPT !.info.lastModified =
                      IF lastModified > e.info.lastModified THEN lastModified
                      ELSE e.info.lastModified]
             ELSE e)

\* (variant: only the first source's operations are moved to the destination)
JoinCommitFirstRemapOnly(pre, idx, q, cmd, ss, calls) ==
    LET q1  == remapQueueAfterJoin(q, ss[1], cmd.bucket)
        lm1 == SourceLastModified(idx, ss[1], 0)
        ix1 == JoinRemoveSource(idx, ss[1])
        lm2 == SourceLastModified(ix1, ss[2], lm1)
        ix2 == JoinRemoveSource(ix1, ss[2])
    IN  [index |-> JoinUpdateDest(ix2, cmd.bucket, lm2),
         queue |-> q1,
         last  |-> Outcome(pre, "join", cmd, "OK", "", calls, <<>>, <<>>, <<>>)]

\* everything the handler does once the provider's join has succeeded
JoinCommit(pre, idx, q, cmd, ss, calls) ==
    LET q1  == remapQueueAfterJoin(q, ss[1], cmd.bucket)
        lm1 == SourceLastModified(idx, ss[1], 0)
        ix1 == JoinRemoveSource(idx, ss[1])
        q2  == remapQueueAfterJoin(q1, ss[2], cmd.bucket)
        lm2 == SourceLastModified(ix1, ss[2], lm1)
        ix2 == JoinRemoveSource(ix1, ss[2])
    IN  [index |-> JoinUpdateDest(ix2, cmd.bucket, lm2),
         queue |-> q2,
         last  |-> Outcome(pre, "join", cmd, "OK", "", calls, <<>>, <<>>, <<>>)]

\* if (!tracker->checkForError(result)) after _spi.join
JoinResultFailed(result) == hasError(result)

\* handleJoinBuckets for one of the commands cmds
JoinBuckets(cmds) ==
    /\ last.op = "none"
    /\ \E cmd \in cmds :
        IF ~validateJoinCommand(cmd)
        THEN /\ last' = Failed(Pre, "join", cmd, "ILLEGAL_PARAMETERS", JoinValidation(cmd), <<>>)
             /\ UNCHANGED <<index, queue>>
        ELSE \E result \in SpiResults :
            LET ss    == SortedSources(cmd.sources)
                idx1  == JoinCreateDest(index, cmd.bucket)
                disks == JoinLockDisks(idx1, ss)
                calls == <<Call("join", <<ss, disks, cmd.bucket>>, result)>>
            IN  IF JoinResultFailed(result)
                THEN /\ last' = Failed(Pre, "join", cmd, convertErrorCode(result),
                                       result.errorMessage, calls)
                     /\ index' = idx1
                     /\ UNCHANGED queue
                ELSE LET c == JoinCommit(Pre, idx1, queue, cmd, ss, calls)
                     IN  /\ index' = c.index
                         /\ queue' = c.queue
                         /\ last' = c.last
    /\ UNCHANGED <<config, concVars>>

HandleJoinBuckets == JoinBuckets(JoinCommands)

\* bucket ids over the three lowest location bits, bits above the used ones
\* set or not, and three ids whose used bits reach the top of the location
WideBuckets ==
    {B(n, l) : n \in 1..3, l \in SUBSET {0, 1, 2}}
    \cup {B(MaxUsedBits - 1, {0, 56}), B(MaxUsedBits, {0, 56, 57}), B(MaxUsedBits, {0, 57})}

\* joins of any two of these buckets into any third
WideJoinCommands ==
    {[bucket |-> d, sources |-> <<s1, s2>>] :
        d \in WideBuckets, s1 \in WideBuckets, s2 \in WideBuckets}

HandleWideJoin == JoinBuckets(WideJoinCommands)

-----------------------------------------------------------------------------
(* Several persistence threads.  A thread takes a command together with    *)
(* the lock of the command's bucket (FileStorHandler::getNextMessage), and *)
(* the handler then waits, one bucket at a time, for the bucket locks      *)
(* (lockAndGetDisk) and for the guards of the database entries             *)
(* (StorBucketDatabase::get) it needs.  A guard is counted as held from    *)
(* get() until the WrappedEntry goes out of scope, whether or not the      *)
(* entry exists.                                                           *)

Workers == 1..NumWorkers

LeftLow == B(3, {0})
LeftHigh == B(3, {0, 2})

ConcSplitCommands ==
    {[bucket |-> Root, maxSplitBits |-> 3],
     [bucket |-> Left, maxSplitBits |-> 3],
     [bucket |-> Full, maxSplitBits |-> MaxUsedBits + 1]}

ConcJoinCommands ==
    {[bucket |-> Root, sources |-> <<Right, Left>>],
     [bucket |-> Root, sources |-> <<Left, Left>>],
     [bucket |-> Root, sources |-> <<LeftHigh, LeftLow>>],
     [bucket |-> Left, sources |-> <<LeftLow, LeftHigh>>],
     [bucket |-> Root, sources |-> <<Outside, Right>>]}

LockFree(b) == \A l \in bucketLocks : l[1] # getId(b)

GuardFree(b) == \A w \in Workers : \A i \in DOMAIN guards[w] : guards[w][i] # getId(b)

\* the locals of a handler: the command, the split targets or sorted join
\* sources, the disks of the bucket locks, lastModified, the provider calls
Local(op, cmd, buckets, disks, lastModified, calls) ==
    [op |-> op, cmd |-> cmd, buckets |-> buckets, disks |-> disks,
     lastModified |-> lastModified, calls |-> calls]

NoLocal == Local("none", <<>>, <<>>, <<>>, 0, <<>>)

\* (variant: the guards are not scoped and stay held when the handler is left)
ReturnHoldingGuards(w) ==
    /\ pc' = [pc EXCEPT ![w] = "idle"]
    /\ wcmd' = [wcmd EXCEPT ![w] = NoLocal]
    /\ bucketLocks' = {l \in bucketLocks : l[2] # w}
    /\ UNCHANGED <<guards, done>>

\* the handler returns: its guards and bucket locks go out of scope, the
\* tracker releases the lock of the command's bucket
Return(w) ==
    /\ pc' = [pc EXCEPT ![w] = "idle"]
    /\ wcmd' = [wcmd EXCEPT ![w] = NoLocal]
    /\ bucketLocks' = {l \in bucketLocks : l[2] # w}
    /\ guards' = [guards EXCEPT ![w] = <<>>]
    /\ UNCHANGED done

Goto(w, label) == pc' = [pc EXCEPT ![w] = label]

\* FileStorHandler::lock: wait until no thread holds the bucket's lock
TakeLock(w, b) ==
    /\ LockFree(b)
    /\ bucketLocks' = bucketLocks \cup {<<getId(b), w>>}

\* StorBucketDatabase::get: wait until no thread holds the entry's guard
TakeGuard(w, b) ==
    /\ GuardFree(b)
    /\ guards' = [guards EXCEPT ![w] = Append(@, getId(b))]

\* getNextMessage hands out a split; the handler runs up to its first lock
StartSplit(w) ==
    /\ pc[w] = "idle"
    /\ done < MaxCommands
    /\ \E cmd \in ConcSplitCommands :
        /\ LockFree(cmd.bucket)
        /\ \E targetInfo \in TargetInfos(cmd, config) :
            IF SplitIllegal(cmd) \/ targetInfo.kind = "failed"
            THEN UNCHANGED <<pc, wcmd, bucketLocks>>
            ELSE /\ Goto(w, "split_lock1")
                 /\ wcmd' = [wcmd EXCEPT ![w] =
                        Local("split", cmd, targetInfo.targets, <<>>, 0, <<>>)]
                 /\ bucketLocks' = bucketLocks \cup {<<getId(cmd.bucket), w>>}
    /\ done' = done + 1
    /\ UNCHANGED <<seqVars, guards, asyncVars>>

\* lock1 / lock2: _env.lockAndGetDisk(target)
SplitLockTarget(w, i) ==
    /\ pc[w] = (IF i = 1 THEN "split_lock1" ELSE "split_lock2")
    /\ TakeLock(w, wcmd[w].buckets[i])
    /\ wcmd' = [wcmd EXCEPT ![w].disks =
                    Append(@, lockAndGetDisk(index, wcmd[w].buckets[i]))]
    /\ Goto(w, IF i = 1 THEN "split_lock2" ELSE "split_engine")
    /\ UNCHANGED <<seqVars, guards, done, asyncVars>>

\* _spi.split and the check of its result
SplitEngine(w) ==
    /\ pc[w] = "split_engine"
    /\ \E result \in SpiResults :
        IF SplitResultFailed(result)
        THEN Return(w)
        ELSE /\ Goto(w, "split_get_source")
             /\ wcmd' = [wcmd EXCEPT ![w].calls =
                    <<Call("split", <<wcmd[w].cmd.bucket, wcmd[w].buckets,
                                      wcmd[w].disks>>, result)>>]
             /\ UNCHANGED <<bucketLocks, guards, done>>
    /\ UNCHANGED <<seqVars, asyncVars>>

\* sourceEntry: get() of the source bucket
SplitGetSource(w) ==
    /\ pc[w] = "split_get_source"
    /\ TakeGuard(w, wcmd[w].cmd.bucket)
    /\ Goto(w, "split_get_target1")
    /\ UNCHANGED <<seqVars, wcmd, bucketLocks, done, asyncVars>>

\* (variant: the second target's entry is fetched before the first's)
SplitGetTargetReversed(w, i) ==
    /\ pc[w] = (IF i = 1 THEN "split_get_target1" ELSE "split_get_target2")
    /\ TakeGuard(w, wcmd[w].buckets[3 - i])
    /\ Goto(w, IF i = 1 THEN "split_get_target2" ELSE "split_update")
    /\ UNCHANGED <<seqVars, wcmd, bucketLocks, done, asyncVars>>

\* targets.emplace_back: get() of a target, created when missing
SplitGetTarget(w, i) ==
    /\ pc[w] = (IF i = 1 THEN "split_get_target1" ELSE "split_get_target2")
    /\ TakeGuard(w, wcmd[w].buckets[i])
    /\ Goto(w, IF i = 1 THEN "split_get_target2" ELSE "split_update")
    /\ UNCHANGED <<seqVars, wcmd, bucketLocks, done, asyncVars>>

\* the rest of the handler, under the three guards
SplitUpdate(w) ==
    /\ pc[w] = "split_update"
    /\ \E i1 \in TargetInfoAnswers, i2 \in TargetInfoAnswers, owns \in BOOLEAN :
        LET c == SplitCommit(index, queue, wcmd[w].cmd, wcmd[w].buckets,
                             wcmd[w].disks, <<i1, i2>>, ~owns, wcmd[w].calls)
        IN  /\ index' = c.index
            /\ queue' = c.queue
    /\ Return(w)
    /\ UNCHANGED <<config, last, asyncVars>>

\* _env.getBucketInfo(target, disk) throws for the second target, the three
\* guards held: the stack unwinds through the handler, nothing was written
SplitThrows(w) ==
    /\ pc[w] = "split_update"
    /\ Return(w)
    /\ UNCHANGED <<seqVars, asyncVars>>

\* getNextMessage hands out a join; the handler validates and sorts
StartJoin(w) ==
    /\ pc[w] = "idle"
    /\ done < MaxCommands
    /\ \E cmd \in ConcJoinCommands :
        /\ LockFree(cmd.bucket)
        /\ IF ~validateJoinCommand(cmd)
           THEN UNCHANGED <<pc, wcmd, bucketLocks>>
           ELSE /\ Goto(w, "join_get_dest")
                /\ wcmd' = [wcmd EXCEPT ![w] =
                       Local("join", cmd, SortedSources(cmd.sources), <<>>, 0, <<>>)]
                /\ bucketLocks' = bucketLocks \cup {<<getId(cmd.bucket), w>>}
    /\ done' = done + 1
    /\ UNCHANGED <<seqVars, guards, asyncVars>>

\* get() of the destination, created when missing
JoinGetDest(w) ==
    /\ pc[w] = "join_get_dest"
    /\ TakeGuard(w, wcmd[w].cmd.bucket)
    /\ Goto(w, "join_write_dest")
    /\ UNCHANGED <<seqVars, wcmd, bucketLocks, done, asyncVars>>

\* entry->disk = _env._partition; entry.write(); the guard's scope ends
JoinWriteDest(w) ==
    /\ pc[w] = "join_write_dest"
    /\ index' = JoinCreateDest(index, wcmd[w].cmd.bucket)
    /\ guards' = [guards EXCEPT ![w] = <<>>]
    /\ Goto(w, "join_lock1")
    /\ UNCHANGED <<queue, config, last, wcmd, bucketLocks, done, asyncVars>>

\* lock1, and lock2 when the second source is another bucket
JoinLockSource(w, i) ==
    /\ pc[w] = (IF i = 1 THEN "join_lock1" ELSE "join_lock2")
    /\ TakeLock(w, wcmd[w].buckets[i])
    /\ wcmd' = [wcmd EXCEPT ![w].disks =
                    Append(@, lockAndGetDisk(index, wcmd[w].buckets[i]))]
    /\ Goto(w, IF i = 1 /\ ~BucketEq(wcmd[w].buckets[1], wcmd[w].buckets[2])
               THEN "join_lock2" ELSE "join_engine")
    /\ UNCHANGED <<seqVars, guards, done, asyncVars>>

\* _spi.join and the check of its result
JoinEngine(w) ==
    /\ pc[w] = "join_engine"
    /\ \E result \in SpiResults :
        IF JoinResultFailed(result)
        THEN Return(w)
        ELSE /\ Goto(w, "join_get_source1")
             /\ UNCHANGED <<wcmd, bucketLocks, guards, done>>
    /\ UNCHANGED <<seqVars, asyncVars>>

\* remapQueueAfterJoin for a source, then get() of its entry
JoinGetSource(w, i) ==
    /\ pc[w] = (IF i = 1 THEN "join_get_source1" ELSE "join_get_source2")
    /\ TakeGuard(w, wcmd[w].buckets[i])
    /\ queue' = remapQueueAfterJoin(queue, wcmd[w].buckets[i], wcmd[w].cmd.bucket)
    /\ Goto(w, IF i = 1 THEN "join_remove_source1" ELSE "join_remove_source2")
    /\ UNCHANGED <<index, config, last, wcmd, bucketLocks, done, asyncVars>>

\* (variant: the guard of a source entry stays held after the iteration)
JoinDropSourceHoldingGuard(w, i) ==
    /\ pc[w] = (IF i = 1 THEN "join_remove_source1" ELSE "join_remove_source2")
    /\ wcmd' = [wcmd EXCEPT ![w].lastModified =
                    SourceLastModified(index, wcmd[w].buckets[i], @)]
    /\ index' = JoinRemoveSource(index, wcmd[w].buckets[i])
    /\ Goto(w, IF i = 1 THEN "join_get_source2" ELSE "join_get_dest_again")
    /\ UNCHANGED <<queue, config, last, bucketLocks, guards, done, asyncVars>>

\* the source's entry is removed if it exists; the guard's scope ends
JoinDropSource(w, i) ==
    /\ pc[w] = (IF i = 1 THEN "join_remove_source1" ELSE "join_remove_source2")
    /\ wcmd' = [wcmd EXCEPT ![w].lastModified =
                    SourceLastModified(index, wcmd[w].buckets[i], @)]
    /\ index' = JoinRemoveSource(index, wcmd[w].buckets[i])
    /\ guards' = [guards EXCEPT ![w] = <<>>]
    /\ Goto(w, IF i = 1 THEN "join_get_source2" ELSE "join_get_dest_again")
    /\ UNCHANGED <<queue, config, last, bucketLocks, done, asyncVars>>

\* get() of the destination after the sources are gone
JoinGetDestAgain(w) ==
    /\ pc[w] = "join_get_dest_again"
    /\ TakeGuard(w, wcmd[w].cmd.bucket)
    /\ Goto(w, "join_update_dest")
    /\ UNCHANGED <<seqVars, wcmd, bucketLocks, done, asyncVars>>

\* the destination's last-modified time is set, the entry written
JoinFinish(w) ==
    /\ pc[w] = "join_update_dest"
    /\ index' = JoinUpdateDest(index, wcmd[w].cmd.bucket, wcmd[w].lastModified)
    /\ Return(w)
    /\ UNCHANGED <<queue, config, last, asyncVars>>

\* the next step of thread w inside a handler it has started
Step(w) ==
    \/ \E i \in 1..2 : SplitLockTarget(w, i)
    \/ SplitEngine(w)
    \/ SplitGetSource(w)
    \/ \E i \in 1..2 : SplitGetTarget(w, i)
    \/ SplitUpdate(w)
    \/ SplitThrows(w)
    \/ JoinGetDest(w)
    \/ JoinWriteDest(w)
    \/ \E i \in 1..2 : JoinLockSource(w, i)
    \/ JoinEngine(w)
    \/ \E i \in 1..2 : JoinGetSource(w, i)
    \/ \E i \in 1..2 : JoinDropSource(w, i)
    \/ JoinGetDestAgain(w)
    \/ JoinFinish(w)

-----------------------------------------------------------------------------
(* The dispatcher: PersistenceThread::run, processLockedMessage,           *)
(* processMessage and handleCommandSplitByType, and the handlers of the    *)
(* document operations.  One step handles one command up to the reply, or  *)
(* up to the asynchronous provider call when an executor was given.        *)

\* api::ReturnCode
ReturnCode(code, msg) == [code |-> code, message |-> msg]

Ok == ReturnCode("OK", "")

\* MessageTracker::checkForError: the tracker's result after a provider call
checkForError(result) ==
    IF hasError(result)
    THEN ReturnCode(convertErrorCode(result), result.errorMessage)
    ELSE Ok

\* what the tracker and the notification guard hold when a handler is left:
\* "returned" with its tracker, "threw" an exception, "submitted" its tracker
\* to a task, or "dropped" the command without a tracker
Handled(op, cmd, rc, calls, notified, how) ==
    [pre |-> Pre, op |-> op, cmd |-> cmd, code |-> rc.code, message |-> rc.message,
     calls |-> calls, notified |-> notified, how |-> how,
     id |-> done + 1, after |-> last.op, body |-> <<>>]

\* the same, for a handler that gave the tracker a reply of its own (setReply)
HandledWith(op, cmd, rc, calls, notified, how, body) ==
    [Handled(op, cmd, rc, calls, notified, how) EXCEPT !.body = body]

\* a reply as the FileStorHandler is given it, and who sent it; for the reply
\* of a task, the place of its provider call among the calls completed
Reply(id, cmd, rc, by, completed, body) ==
    [id |-> id, type |-> cmd.type, bucket |-> getId(cmd.bucket), code |-> rc.code,
     message |-> rc.message, by |-> by, completed |-> completed, body |-> body]

\* what of a command the tracker handed to a finishing task needs for the reply
Tracked(cmd) ==
    [type |-> cmd.type, bucket |-> cmd.bucket, timestamp |-> cmd.timestamp]

\* (variant: a reply is also sent for the tracker after an exception)
ProcessedReplyingTwice(h) ==
    LET rc == ReturnCode(h.code, h.message)
    IN
    /\ done < MaxCommands
    /\ done' = done + 1
    /\ last' = h
    /\ replies' =
         CASE h.how = "returned" -> Append(replies, Reply(h.id, h.cmd, rc, "tracker", 0, h.body))
           [] h.how = "threw" ->
                replies \o <<Reply(h.id, h.cmd, ReturnCode("INTERNAL_FAILURE", h.message),
                                   "processMessage", 0, <<>>),
                             Reply(h.id, h.cmd, Ok, "tracker", 0, <<>>)>>
           [] OTHER -> replies
    /\ UNCHANGED <<queue, config, executor, threadVars>>

\* (variant: a command no handler took is answered with success)
ProcessedAnsweringAll(h) ==
    /\ done < MaxCommands
    /\ done' = done + 1
    /\ last' = h
    /\ replies' = Append(replies, Reply(h.id, h.cmd, ReturnCode(h.code, h.message),
                                        "tracker", 0, h.body))
    /\ UNCHANGED <<queue, config, executor, threadVars>>

\* processLockedMessage and processMessage around a handler that was left
\* as h says: the tracker that comes back sends its reply; an exception is
\* answered by processMessage, which then has no tracker to return
Processed(h) ==
    LET rc == ReturnCode(h.code, h.message)
    IN
    /\ done < MaxCommands
    /\ done' = done + 1
    /\ last' = h
    /\ replies' =
         CASE h.how = "returned" -> Append(replies, Reply(h.id, h.cmd, rc, "tracker", 0, h.body))
           [] h.how = "threw" ->
                Append(replies, Reply(h.id, h.cmd, ReturnCode("INTERNAL_FAILURE", h.message),
                                      "processMessage", 0, <<>>))
           [] OTHER -> replies
    /\ UNCHANGED <<queue, config, executor, threadVars>>

\* the handler neither touches the database nor starts an asynchronous call
Plain == UNCHANGED <<index, pending, lanes, notFound, store, loop>>

-----------------------------------------------------------------------------
(* Revert, create, delete and recheck: the commands on a whole bucket.     *)

\* the bucket infos the provider, the database and a command may hold here:
\* empty, one document (not ready and not active, or ready and active), two
OpsInfos ==
    {DefaultInfo, BucketInfo(7, 1, 1, 1, FALSE, FALSE),
     BucketInfo(7, 1, 1, 1, TRUE, TRUE), BucketInfo(9, 2, 2, 1, FALSE, FALSE)}

RevertCommands ==
    {[type |-> "revert", bucket |-> Root, tokens |-> ts] : ts \in {<<1>>, <<1, 2>>}}

CreateBucketCommands ==
    {[type |-> "create", bucket |-> Root, active |-> a] : a \in BOOLEAN}

DeleteBucketCommands ==
    {[type |-> "delete", bucket |-> Root, info |-> BucketInfo(7, 1, 1, 1, FALSE, FALSE)]}

RecheckCommands == {[type |-> "recheck", bucket |-> Root]}

\* a handler that starts no asynchronous call
Sync == UNCHANGED <<pending, lanes, notFound, store, loop>>

\* the removeEntry calls of a revert, one per token
RevertCalls(cmd, results) ==
    [i \in 1..Len(cmd.tokens) |-> Call("removeEntry", <<cmd.bucket, cmd.tokens[i]>>, results[i])]

\* handleRevert: one removeEntry per token; the results are not looked at
handleRevert ==
    \E cmd \in RevertCommands :
    \E results \in [1..Len(cmd.tokens) -> SpiResults] :
        /\ Processed(Handled("revert", cmd, Ok, RevertCalls(cmd, results), <<>>, "returned"))
        /\ UNCHANGED index
        /\ Sync

\* handleCreateBucket: createBucket, then setActiveState if the command says
\* active; neither result is looked at
handleCreateBucket ==
    \E cmd \in CreateBucketCommands :
    \E created \in SpiResults :
    \E activated \in (IF cmd.active THEN SpiResults ELSE {SpiOk}) :
        /\ Processed(Handled("create", cmd, Ok,
                <<Call("createBucket", <<cmd.bucket>>, created)>>
                \o (IF cmd.active
                    THEN <<Call("setActiveState", <<cmd.bucket, "ACTIVE">>, activated)>>
                    ELSE <<>>),
                <<>>, "returned"))
        /\ UNCHANGED index
        /\ Sync

bucketStatesAreSemanticallyEqual(a, b) ==
    a.checksum = b.checksum /\ a.docCount = b.docCount

\* api::BucketInfo::empty, of the fields a bucket info has here
empty(info) == info.metaCount = 0 /\ info.checksum = 0

\* what getBucketInfo may answer: an error, or a bucket info
InfoResult(result, info) == [result |-> result, info |-> info]

InfoResults ==
    {InfoResult(e, DefaultInfo) : e \in SpiErrors}
    \cup {InfoResult(SpiOk, i) : i \in OpsInfos}

\* (variant: a bucket the provider holds is deleted whatever the command says)
checkProviderBucketInfoAlwaysMatches(answer, info) == TRUE

\* checkProviderBucketInfoMatches, given the provider's answer
checkProviderBucketInfoMatches(answer, info) ==
    IF hasError(answer.result) THEN FALSE
    ELSE IF ~bucketStatesAreSemanticallyEqual(info, answer.info) /\ ~empty(answer.info)
    THEN FALSE
    ELSE TRUE

\* (variant: the ready and active state of the entry is lost with its counts)
ResetInfoToDefault(info) == DefaultInfo

\* api::BucketInfo info(0, 0, 0) with the ready and active state retained
ResetInfo(info) == BucketInfo(0, 0, 0, 0, info.ready, info.active)

\* (variant: the merge is aborted only once the check has let the delete pass)
DeleteChecksAbortingLate(cmd, merging, answer) ==
    <<Call("isMerging", <<cmd.bucket>>, merging),
      Call("getBucketInfo", <<cmd.bucket>>, answer)>>
    \o (IF merging /\ checkProviderBucketInfoMatches(answer, cmd.info)
        THEN <<Call("clearMergeStatus", <<cmd.bucket, "ABORTED">>, SpiOk)>>
        ELSE <<>>)

\* the calls of handleDeleteBucket up to and including getBucketInfo: a
\* bucket that is being merged has its merge aborted first
DeleteChecks(cmd, merging, answer) ==
    <<Call("isMerging", <<cmd.bucket>>, merging)>>
    \o (IF merging
        THEN <<Call("clearMergeStatus", <<cmd.bucket, "ABORTED">>, SpiOk)>>
        ELSE <<>>)
    \o <<Call("getBucketInfo", <<cmd.bucket>>, answer)>>

\* handleDeleteBucket: a merge of the bucket is aborted; if the provider's
\* info does not match the command's the tracker is returned as it is;
\* otherwise deleteBucket, its result not looked at, and an entry that still
\* has meta entries is reset
handleDeleteBucket ==
    \E cmd \in DeleteBucketCommands :
    \E merging \in BOOLEAN :
    \E answer \in InfoResults :
        LET checks == DeleteChecks(cmd, merging, answer)
            k == getId(cmd.bucket)
        IN
        IF ~checkProviderBucketInfoMatches(answer, cmd.info)
        THEN /\ Processed(Handled("delete", cmd, Ok, checks, <<>>, "returned"))
             /\ UNCHANGED index
             /\ Sync
        ELSE \E deleted \in SpiResults :
             /\ Processed(Handled("delete", cmd, Ok,
                    checks \o <<Call("deleteBucket", <<cmd.bucket>>, deleted)>>,
                    <<>>, "returned"))
             /\ index' = IF k \in DOMAIN index /\ index[k].info.metaCount > 0
                         THEN With(index, k, Entry(index[k].disk, ResetInfo(index[k].info)))
                         ELSE index
             /\ Sync

\* (variant: the entry is written and notified whatever the provider says)
InfoChangedAlways(prevInfo, info) == TRUE

\* !(prevInfo == info)
InfoChanged(prevInfo, info) == prevInfo # info

\* (variant: the provider's info is written whether or not an entry exists)
RecheckedCreating(idx, k, info) ==
    With(idx, k, Entry(IF k \in DOMAIN idx THEN idx[k].disk ELSE Partition, info))

\* the database after handleRecheckBucketInfo read info for the bucket k
Rechecked(idx, k, info) ==
    IF k \in DOMAIN idx /\ InfoChanged(idx[k].info, info)
    THEN With(idx, k, Entry(idx[k].disk, info))
    ELSE idx

\* handleRecheckBucketInfo: the provider's info is read; an entry that holds
\* another info is overwritten and notified; no entry, nothing
handleRecheckBucketInfo ==
    \E cmd \in RecheckCommands :
    \E info \in OpsInfos :
        LET k == getId(cmd.bucket)
            read == <<Call("getBucketInfo", <<cmd.bucket>>, InfoResult(SpiOk, info))>>
            notified == IF k \in DOMAIN index /\ InfoChanged(index[k].info, info)
                        THEN <<[bucket |-> k, info |-> info]>>
                        ELSE <<>>
        IN
        /\ Processed(Handled("recheck", cmd, Ok, read, notified, "returned"))
        /\ index' = Rechecked(index, k, info)
        /\ Sync

SetBucketStateCommands ==
    {[type |-> "setstate", bucket |-> Root, state |-> st] : st \in {"ACTIVE", "NOT_ACTIVE"}}

\* (variant: the entry is updated whatever the provider answered)
SetStateAppliedAlways(result, idx, k) == k \in DOMAIN idx

\* the entry is fetched only after setActiveState succeeded, and is updated
\* only if it exists
SetStateApplied(result, idx, k) == ~hasError(result) /\ k \in DOMAIN idx

\* NotificationGuard::notifyIfOwnershipChanged: the notifier is asked whether
\* the distributor the command came from owns the bucket; if not, the bucket
\* and its info are notified
notifyIfOwnershipChanged(k, owns, info) ==
    [calls |-> <<Call("distributorOwns", <<k>>, owns)>>,
     notified |-> IF owns THEN <<>> ELSE <<[bucket |-> k, info |-> info]>>]

\* handleSetBucketState: setActiveState; on success the entry, if there is one,
\* gets the new active flag, is notified if the ownership changed, and written
handleSetBucketState ==
    \E cmd \in SetBucketStateCommands :
    \E result \in SpiResults, owns \in BOOLEAN :
        LET k == getId(cmd.bucket)
            shouldBeActive == cmd.state = "ACTIVE"
            applied == SetStateApplied(result, index, k)
            info == [index[k].info EXCEPT !.active = shouldBeActive]
            note == IF applied
                    THEN notifyIfOwnershipChanged(k, owns, info)
                    ELSE [calls |-> <<>>, notified |-> <<>>]
        IN
        /\ Processed(Handled("setstate", cmd, checkForError(result),
                <<Call("setActiveState", <<cmd.bucket, cmd.state>>, result)>> \o note.calls,
                note.notified, "returned"))
        /\ index' = IF applied THEN With(index, k, Entry(index[k].disk, info)) ELSE index
        /\ Sync

\* the message types handleCommandSplitByType has a case for, and the
\* internal commands its inner switch has a case for
CommandTypes ==
    {"get", "put", "remove", "update", "revert", "create", "delete", "join", "split",
     "statbucket", "removelocation", "mergebucket", "getbucketdiff", "applybucketdiff",
     "setstate"}

InternalTypes ==
    {"getiter", "createiterator", "readbucketlist", "readbucketinfo", "internaljoin",
     "recheck"}

\* commands the thread can be handed that neither switch has a case for: a
\* storage command of another type, an internal command of another type
UnhandledCommands ==
    {[type |-> "notifybucketchange", bucket |-> Root],
     [type |-> "internal:other", bucket |-> Root]}

\* the switch: the handler a command of the given type is given to, named by
\* the type; "none" when the default of the switch is taken
handleCommandSplitByType(type) ==
    IF type \in CommandTypes \cup InternalTypes THEN type ELSE "none"

\* a command the switch has no case for: handleCommandSplitByType returns no
\* tracker, so processLockedMessage has nothing to send
DropUnhandled ==
    \E cmd \in UnhandledCommands :
        /\ handleCommandSplitByType(cmd.type) = "none"
        /\ Processed(Handled("unhandled", cmd, Ok, <<>>, <<>>, "dropped"))
        /\ UNCHANGED index
        /\ Sync

-----------------------------------------------------------------------------
(* Put, remove and update: test-and-set, getBucket, the provider call.     *)

DocIn == {0}     \* a document of the root bucket
DocOut == {1}    \* a document of the bucket Outside

\* the timestamp every put, remove and update command carries
CommandTime == 3

Mutation(type, bucket, doc, condition, create) ==
    [type |-> type, bucket |-> bucket, doc |-> doc, condition |-> condition,
     create |-> create, timestamp |-> CommandTime]

MutationTypes == {"put", "remove", "update"}

\* with and without a condition; for a bucket the document is not in; an
\* update that creates the document if it is missing; a put to another bucket
MutationCommands ==
    {Mutation(t, Root, DocIn, c, FALSE) : t \in MutationTypes, c \in {"", "sel"}}
    \cup {Mutation(t, Root, DocOut, "", FALSE) : t \in MutationTypes}
    \cup {Mutation("update", Root, DocIn, "sel", TRUE),
          Mutation("put", Outside, DocOut, "", FALSE)}

\* what fetching the document for the condition can give
Fetch(kind, result, matches) == [kind |-> kind, result |-> result, matches |-> matches]

Fetches ==
    {Fetch("error", e, FALSE) : e \in SpiErrors}
    \cup {Fetch("absent", SpiOk, FALSE)}
    \cup {Fetch("present", SpiOk, m) : m \in BOOLEAN}

tasConditionExists(cmd) == cmd.condition # ""

\* TestAndSetHelper::retrieveAndMatch
retrieveAndMatch(fetch, missingDocumentImpliesMatch) ==
    CASE fetch.kind = "error" ->
            ReturnCode(convertErrorCode(fetch.result), fetch.result.errorMessage)
      [] fetch.kind = "absent" ->
            IF missingDocumentImpliesMatch THEN Ok
            ELSE ReturnCode("TEST_AND_SET_CONDITION_FAILED", "Document does not exist")
      [] OTHER ->
            IF fetch.matches THEN Ok
            ELSE ReturnCode("TEST_AND_SET_CONDITION_FAILED", "Condition did not match document")

\* (variant: the create-if-non-existent flag of an update is never passed on)
MissingDocumentNeverMatches(cmd) == FALSE

\* (variant: every handler passes the flag set)
MissingDocumentAlwaysMatches(cmd) == TRUE

\* the flag the handler passes on: only an update has one to pass
MissingDocumentImpliesMatch(cmd) == cmd.type = "update" /\ cmd.create

\* (variant: the tracker is failed but the handler goes on to the mutation)
tasConditionMatchesAlways(cmd, fetch) == TRUE

\* tasConditionMatches: whether the handler goes on to the mutation
tasConditionMatches(cmd, fetch) ==
    retrieveAndMatch(fetch, MissingDocumentImpliesMatch(cmd)).code = "OK"

\* getBucket: the document's bucket, cut to the used bits of the command's
\* bucket, must be the command's bucket; otherwise IllegalStateException
getBucketThrows(cmd) ==
    ~BucketEq(BucketId(cmd.bucket.bits, DocBucket(cmd.doc)), cmd.bucket)

\* the provider call of each mutation
SpiCall(type) ==
    CASE type = "put" -> "put"
      [] type = "remove" -> "removeIfFound"
      [] type = "update" -> "update"

SpiCallAsync(type) ==
    CASE type = "put" -> "putAsync"
      [] type = "remove" -> "removeIfFoundAsync"
      [] type = "update" -> "updateAsync"

\* ISequencedTaskExecutor::getExecutorId of a bucket id
getExecutorId(b) == (getId(b).bits + Cardinality(getId(b).loc)) % NumLanes

\* (variant: the lane is taken from the operation, not from its bucket)
ExecutorIdOfOperation(id, cmd) == id % NumLanes

\* ResultTaskOperationDone: _executorId(executor.getExecutorId(bucketId.getId()))
ExecutorIdOf(id, cmd) == getExecutorId(cmd.bucket)

\* the call to the provider that fetched the document, if there was one
FetchCalls(cmd, fetch) ==
    IF tasConditionExists(cmd)
    THEN <<Call("get", <<cmd.bucket, cmd.doc>>, fetch)>>
    ELSE <<>>

\* spi::RemoveResult: a result that also says whether the document was found;
\* one made from an error says it was not
RemoveResult(result, found) ==
    [errorCode |-> result.errorCode, errorMessage |-> result.errorMessage,
     wasFound |-> found]

\* spi::UpdateResult: a result that also carries the timestamp of the
\* document that was updated, 0 when there was none; one made from an error
\* carries 0
UpdateResult(result, existing) ==
    [errorCode |-> result.errorCode, errorMessage |-> result.errorMessage,
     existingTimestamp |-> existing]

\* what the provider may answer to the call of a mutation
Responses(type) ==
    CASE type = "remove" ->
            {RemoveResult(SpiOk, f) : f \in BOOLEAN}
            \cup {RemoveResult(e, FALSE) : e \in SpiErrors}
      [] type = "update" ->
            {UpdateResult(SpiOk, t) : t \in {0, 1}}
            \cup {UpdateResult(e, 0) : e \in SpiErrors}
      [] OTHER -> SpiResults

\* the reply the tracker is given after the provider's answer: a remove that
\* did not fail sets a RemoveReply with the command's timestamp if the
\* document was found and 0 if not, an update that did not fail an
\* UpdateReply with the timestamp the provider gave; otherwise the tracker's
\* own reply stays
ReplyBody(cmd, response) ==
    CASE cmd.type = "remove" /\ checkForError(response).code = "OK" ->
            [timestamp |-> IF response.wasFound THEN cmd.timestamp ELSE 0]
      [] cmd.type = "update" /\ checkForError(response).code = "OK" ->
            [oldTimestamp |-> response.existingTimestamp]
      [] OTHER -> <<>>

\* (variant: a remove counts a document as not found only if the call succeeded)
CountedUnlessFailed(cmd, response) ==
    cmd.type = "remove" /\ ~hasError(response) /\ ~response.wasFound

\* if (!response.wasFound()) metrics.notFound.inc(), of handleRemove
Counted(cmd, response) == cmd.type = "remove" /\ ~response.wasFound

\* the counters after the provider's answer to the call of cmd
CountNotFound(cmd, response) ==
    IF Counted(cmd, response)
    THEN [notFound EXCEPT ![cmd.type] = @ + 1]
    ELSE notFound

\* handlePut, handleRemove and handleUpdate for the command cmd, the fetch of
\* its document giving fetch and, without an executor, the provider
\* answering response
Mutate(cmd, fetch, response) ==
    LET fetched == FetchCalls(cmd, fetch)
        type == cmd.type
    IN
    IF tasConditionExists(cmd) /\ ~tasConditionMatches(cmd, fetch)
    THEN /\ Processed(Handled(type, cmd,
                retrieveAndMatch(fetch, MissingDocumentImpliesMatch(cmd)),
                fetched, <<>>, "returned"))
         /\ UNCHANGED <<index, pending, lanes, notFound>>
    ELSE IF getBucketThrows(cmd)
    THEN /\ Processed(Handled(type, cmd,
                ReturnCode("INTERNAL_FAILURE", "does not belong in bucket"),
                fetched, <<>>, "threw"))
         /\ UNCHANGED <<index, pending, lanes, notFound>>
    ELSE IF ~executor
    THEN /\ Processed(HandledWith(type, cmd, checkForError(response),
                fetched \o <<Call(SpiCall(type), <<cmd.bucket, cmd.doc>>, response)>>,
                <<>>, "returned", ReplyBody(cmd, response)))
         /\ notFound' = CountNotFound(cmd, response)
         /\ UNCHANGED <<index, pending, lanes>>
    ELSE /\ Processed(Handled(type, cmd, Ok,
                fetched \o <<Call(SpiCallAsync(type), <<cmd.bucket, cmd.doc>>, "later")>>,
                <<>>, "submitted"))
         /\ pending' = pending \cup
                {[id |-> done + 1, cmd |-> Tracked(cmd),
                  lane |-> ExecutorIdOf(done + 1, cmd)]}
         /\ UNCHANGED <<index, lanes, notFound>>

\* the fetches and the answers a command may meet
FetchesOf(cmd) == IF tasConditionExists(cmd) THEN Fetches ELSE {Fetch("none", SpiOk, FALSE)}

\* the answers of the provider that the handler gets to see: none when it
\* returns or throws before the call, or hands the call to the executor
Answers(cmd, fetch) ==
    IF \/ tasConditionExists(cmd) /\ ~tasConditionMatches(cmd, fetch)
       \/ getBucketThrows(cmd)
       \/ executor
    THEN {"later"}
    ELSE Responses(cmd.type)

HandleMutation(type) ==
    \E cmd \in {c \in MutationCommands : c.type = type} :
    \E fetch \in FetchesOf(cmd) :
    \E response \in Answers(cmd, fetch) :
        /\ Mutate(cmd, fetch, response)
        /\ UNCHANGED <<store, loop>>

handlePut == HandleMutation("put")

handleRemove == HandleMutation("remove")

handleUpdate == HandleMutation("update")

GetCommands == {[type |-> "get", bucket |-> Root, doc |-> d] : d \in {DocIn, DocOut}}

\* no document: the null pointer a GetResult holds when nothing was found
NoDocument == {-1}

\* spi::GetResult: a result with the document, its timestamp and whether the
\* newest entry is a remove
GetResult(result, doc, timestamp, tombstone) ==
    [errorCode |-> result.errorCode, errorMessage |-> result.errorMessage,
     doc |-> doc, timestamp |-> timestamp, tombstone |-> tombstone]

hasDocument(result) == result.doc # NoDocument

\* what the provider may answer to a get of document doc: an error, nothing,
\* a remove entry, or the document
GetResults(doc) ==
    {GetResult(e, NoDocument, 0, FALSE) : e \in SpiErrors}
    \cup {GetResult(SpiOk, NoDocument, 0, FALSE),
          GetResult(SpiOk, NoDocument, CommandTime, TRUE),
          GetResult(SpiOk, doc, CommandTime, FALSE)}

\* (variant: the provider is asked before the document's bucket is checked)
GetCallsUnchecked(cmd, result) == <<Call("get", <<cmd.bucket, cmd.doc>>, result)>>

\* the provider calls of handleGet: getBucket is an argument of _spi.get, so
\* it has thrown before the provider is called
GetCalls(cmd, result) ==
    IF getBucketThrows(cmd)
    THEN <<>>
    ELSE <<Call("get", <<cmd.bucket, cmd.doc>>, result)>>

\* handleGet for the command cmd, the provider answering result: a result
\* without error gives a GetReply with the document and its timestamp, and is
\* counted when there is no document
Get(cmd, result) ==
    IF getBucketThrows(cmd)
    THEN /\ Processed(Handled("get", cmd,
                ReturnCode("INTERNAL_FAILURE", "does not belong in bucket"),
                GetCalls(cmd, result), <<>>, "threw"))
         /\ UNCHANGED <<index, pending, lanes, notFound>>
    ELSE /\ Processed(HandledWith("get", cmd, checkForError(result),
                GetCalls(cmd, result), <<>>, "returned",
                IF hasError(result)
                THEN <<>>
                ELSE [doc |-> result.doc, timestamp |-> result.timestamp,
                      tombstone |-> result.tombstone]))
         /\ notFound' = IF ~hasError(result) /\ ~hasDocument(result)
                        THEN [notFound EXCEPT !.get = @ + 1]
                        ELSE notFound
         /\ UNCHANGED <<index, pending, lanes>>

\* the answers of the provider that handleGet gets to see
GetAnswers(cmd) ==
    IF getBucketThrows(cmd) THEN {GetResult(SpiOk, NoDocument, 0, FALSE)} ELSE GetResults(cmd.doc)

handleGet ==
    \E cmd \in GetCommands :
    \E result \in GetAnswers(cmd) :
        /\ Get(cmd, result)
        /\ UNCHANGED <<store, loop>>

\* how many provider calls have completed so far
Completed ==
    Cardinality({i \in DOMAIN replies : replies[i].by = "task"})
    + Cardinality({<<l, i>> \in (DOMAIN lanes) \X (1..MaxCommands) : i <= Len(lanes[l])})

\* the provider is done with an asynchronous call, in any order it likes:
\* ResultTaskOperationDone::onComplete hands the task to the lane it was
\* given when the call was made
onComplete ==
    \E p \in pending :
    \E response \in Responses(p.cmd.type) :
        /\ pending' = pending \ {p}
        /\ lanes' = [lanes EXCEPT ![p.lane] =
                        Append(@, [id |-> p.id, cmd |-> p.cmd, response |-> response,
                                   completed |-> Completed + 1])]
        /\ UNCHANGED <<seqVars, threadVars, done, executor, replies, notFound, loop, store>>

\* a lane runs the task at its head: tracker->checkForError(*response), for a
\* remove the reply and the counter as in the handler, tracker->sendReply()
runTask ==
    \E l \in DOMAIN lanes :
        /\ lanes[l] # <<>>
        /\ LET task == Head(lanes[l])
           IN  /\ replies' = Append(replies,
                      Reply(task.id, task.cmd, checkForError(task.response), "task",
                            task.completed, ReplyBody(task.cmd, task.response)))
               /\ notFound' = CountNotFound(task.cmd, task.response)
        /\ lanes' = [lanes EXCEPT ![l] = Tail(@)]
        /\ UNCHANGED <<seqVars, threadVars, done, executor, pending, loop, store>>

-----------------------------------------------------------------------------
-----------------------------------------------------------------------------
(* The dispatch loop: PersistenceThread::run, flush and the destructor.    *)

(* loop.at is where the thread is in run(): "test" at the condition of the *)
(* while, "get" in getNextMessage, "process" with a message, "broadcast"   *)
(* at the end of the iteration, "closing" after the while, "exited".       *)
(* loop.flush is where a caller of flush() is: "out", "waiting" on the     *)
(* monitor, "woken", "returned".  loop.destructor is "none", "joining" or  *)
(* "returned".                                                             *)

Loop(at, closed, partitionClosed, interrupted, flush, destructor) ==
    [at |-> at, closed |-> closed, partitionClosed |-> partitionClosed,
     interrupted |-> interrupted, flush |-> flush, destructor |-> destructor]

\* the thread has just been started; nobody has called flush()
StartedLoop == Loop("test", FALSE, FALSE, FALSE, "out", "none")

\* what the loop may be handed: a put of a document of the bucket, or of one
\* that does not belong in it
LoopCommands ==
    {Mutation("put", Root, d, "", FALSE) : d \in {DocIn, DocOut}}

\* the rest of the state, for a step that handles no message
LoopOnly == UNCHANGED <<seqVars, threadVars, done, executor, replies, pending, lanes,
                        notFound, store>>

\* flushMonitorGuard.broadcast(): every thread waiting on the monitor wakes
broadcast(l) == IF l.flush = "waiting" THEN [l EXCEPT !.flush = "woken"] ELSE l

\* while (!thread.interrupted() && !_env._fileStorHandler.closed(_env._partition))
LoopTest ==
    /\ loop # <<>>
    /\ loop.at = "test"
    /\ loop' = [loop EXCEPT !.at = IF loop.interrupted \/ loop.partitionClosed
                                    THEN "closing" ELSE "get"]
    /\ LoopOnly

\* getNextMessage comes back with a message and its lock
LoopGetMessage ==
    /\ loop # <<>>
    /\ loop.at = "get"
    /\ done < MaxCommands
    /\ loop' = [loop EXCEPT !.at = "process"]
    /\ LoopOnly

\* getNextMessage comes back without one (timeout, or the partition closed)
LoopGetNothing ==
    /\ loop # <<>>
    /\ loop.at = "get"
    /\ loop' = [loop EXCEPT !.at = "broadcast"]
    /\ LoopOnly

\* processLockedMessage: the handler of the message runs to its end
LoopProcess ==
    /\ loop # <<>>
    /\ loop.at = "process"
    /\ \E cmd \in LoopCommands :
       \E response \in Answers(cmd, Fetch("none", SpiOk, FALSE)) :
           Mutate(cmd, Fetch("none", SpiOk, FALSE), response)
    /\ loop' = [loop EXCEPT !.at = "broadcast"]
    /\ UNCHANGED store

\* the types of the replies the thread can be handed, and the messages
ReplyTypes == {"getbucketdiff_reply", "applybucketdiff_reply", "mergebucket_reply"}

ReplyMessages == {[type |-> t, bucket |-> Root] : t \in ReplyTypes}

\* msg.getType().isReply()
isReply(type) == type \in ReplyTypes

\* (variant: every reply is given to the handler of the GetBucketDiff replies)
handleReplyRoutingAll(type) == "handleGetBucketDiffReply"

\* handleReply: the handler of the MergeHandler a reply of the given type is
\* given to; "none" when the default of the switch is taken
handleReply(type) ==
    CASE type = "getbucketdiff_reply" -> "handleGetBucketDiffReply"
      [] type = "applybucketdiff_reply" -> "handleApplyBucketDiffReply"
      [] OTHER -> "none"

\* how a handler of the MergeHandler can be left: it returns, or it throws
ReplyHandlerEnds(handler) == IF handler = "none" THEN {"returned"} ELSE {"returned", "threw"}

\* (variant: an exception of a reply handler is answered as one of a command)
SwallowedAnswering(h) ==
    IF h.how = "threw"
    THEN Append(replies, Reply(h.id, h.cmd, ReturnCode("INTERNAL_FAILURE", h.message),
                               "processMessage", 0, <<>>))
    ELSE replies

\* the replies sent once processMessage is through with a reply: its catch
\* only logs, and the tracker that comes back has no reply to send
Swallowed(h) == replies

\* processLockedMessage with a reply: processMessage gives it to handleReply
LoopProcessReply ==
    /\ loop # <<>>
    /\ loop.at = "process"
    /\ \E msg \in ReplyMessages :
       \E how \in ReplyHandlerEnds(handleReply(msg.type)) :
          LET handler == handleReply(msg.type)
              h == Handled("reply", msg,
                           IF how = "threw" THEN ReturnCode("EXCEPTION", "what") ELSE Ok,
                           IF handler = "none" THEN <<>>
                           ELSE <<Call(handler, <<msg.type>>, how)>>,
                           <<>>, how)
          IN
          /\ isReply(msg.type)
          /\ done' = done + 1
          /\ last' = h
          /\ replies' = Swallowed(h)
    /\ loop' = [loop EXCEPT !.at = "broadcast"]
    /\ UNCHANGED <<index, queue, config, threadVars, executor, pending, lanes, notFound,
                   store>>

\* the guard and the broadcast that end an iteration
LoopBroadcast ==
    /\ loop # <<>>
    /\ loop.at = "broadcast"
    /\ loop' = [broadcast(loop) EXCEPT !.at = "test"]
    /\ LoopOnly

\* (variant: the flag is set after the while, but nobody is woken)
LoopCloseWithoutBroadcast ==
    /\ loop # <<>>
    /\ loop.at = "closing"
    /\ loop' = [loop EXCEPT !.at = "exited", !.closed = TRUE]
    /\ LoopOnly

\* after the while: under the monitor, _closed = true and broadcast
LoopClose ==
    /\ loop # <<>>
    /\ loop.at = "closing"
    /\ loop' = [broadcast(loop) EXCEPT !.at = "exited", !.closed = TRUE]
    /\ LoopOnly

\* somebody closes the partition in the FileStorHandler
ClosePartition ==
    /\ loop # <<>>
    /\ ~loop.partitionClosed
    /\ loop' = [loop EXCEPT !.partitionClosed = TRUE]
    /\ LoopOnly

\* (variant: flush() returns at once, whether or not the loop has closed)
FlushEntersReturning(l) == "returned"

\* flush() under the monitor: if (!_closed) wait()
FlushEnters(l) == IF l.closed THEN "returned" ELSE "waiting"

FlushCall ==
    /\ loop # <<>>
    /\ loop.flush = "out"
    /\ loop' = [loop EXCEPT !.flush = FlushEnters(loop)]
    /\ LoopOnly

\* the woken caller of flush() has the monitor again and returns
FlushReturn ==
    /\ loop # <<>>
    /\ loop.flush = "woken"
    /\ loop' = [loop EXCEPT !.flush = "returned"]
    /\ LoopOnly

\* ~PersistenceThread: _thread->interrupt()
DestructorInterrupt ==
    /\ loop # <<>>
    /\ loop.destructor = "none"
    /\ loop' = [loop EXCEPT !.interrupted = TRUE, !.destructor = "joining"]
    /\ LoopOnly

\* (variant: the destructor does not wait for the thread)
JoinedAlways(l) == TRUE

\* _thread->join() returns once run() has returned
Joined(l) == l.at = "exited"

DestructorJoin ==
    /\ loop # <<>>
    /\ loop.destructor = "joining"
    /\ Joined(loop)
    /\ loop' = [loop EXCEPT !.destructor = "returned"]
    /\ LoopOnly

\* the counters of a thread that has handled nothing yet
NoneNotFound == [remove |-> 0, get |-> 0, update |-> 0]

\* no dispatch loop is modelled
NoLoop == <<>>

InitSeq ==
    /\ index \in InitIndexes
    /\ queue \in InitQueues
    /\ config \in BOOLEAN
    /\ last = NoOutcome

InitConc ==
    /\ pc = [w \in 1..NumWorkers |-> "idle"]
    /\ wcmd = [w \in 1..NumWorkers |-> NoLocal]
    /\ bucketLocks = {}
    /\ guards = [w \in 1..NumWorkers |-> <<>>]
    /\ done = 0
    /\ replies = <<>>
    /\ pending = {}
    /\ lanes = [l \in 0..(NumLanes - 1) |-> <<>>]
    /\ notFound = NoneNotFound
    /\ loop = NoLoop
    /\ store = <<>>

Init == InitSeq /\ InitConc /\ executor = FALSE

Next ==
    \/ HandleSplitBucket
    \/ HandleJoinBuckets

Spec == Init /\ [][Next]_vars

\* the bucket infos an entry of the database may hold when a command arrives
\* the dispatcher of the document operations starts with or without an
\* executor; its handlers do not look at the database
InitOps ==
    /\ index = With(<<>>, getId(Root), Entry(Partition, BucketInfo(7, 1, 1, 1, FALSE, FALSE)))
    /\ queue = <<>>
    /\ config = FALSE
    /\ last = NoOutcome
    /\ InitConc
    /\ executor \in BOOLEAN

NextOps ==
    \/ handlePut
    \/ handleRemove
    \/ handleUpdate
    \/ onComplete
    \/ runTask

SpecOps == InitOps /\ [][NextOps]_vars

\* one join of arbitrary buckets, on an empty database
InitJoins ==
    /\ index = <<>>
    /\ queue = <<>>
    /\ config = FALSE
    /\ last = NoOutcome
    /\ InitConc
    /\ executor = FALSE

SpecJoins == InitJoins /\ [][HandleWideJoin]_vars

\* a split of the root bucket: the root has an entry or none, and at most
\* MaxQueue operations are queued
InitSplits ==
    /\ index \in {<<>>, With(<<>>, getId(Root), Entry(Partition, BucketInfo(7, 1, 1, 1, FALSE, FALSE)))}
    /\ queue \in InitQueues
    /\ config = FALSE
    /\ last = NoOutcome
    /\ InitConc
    /\ executor = FALSE

SpecSplits == InitSplits /\ [][HandleSplitOfRoot]_vars

-----------------------------------------------------------------------------
(* Put, get and split against a provider that keeps the documents: what a  *)
(* bucket holds is a set of documents with their timestamps; a put adds or *)
(* replaces one, a get finds it, a split moves each document to the target *)
(* that contains it and drops a target that is left empty.                 *)

DocRight == {0, 1}     \* a document of the root bucket that goes to Right

Stored(doc, timestamp) == [doc |-> doc, timestamp |-> timestamp]

\* what the root bucket may hold at start: documents put at time 1
InitContents == SUBSET {Stored(DocIn, 1), Stored(DocRight, 1)}

\* getBucketInfo of a bucket that holds docs
StoreInfo(docs) ==
    IF docs = {} THEN DefaultInfo
    ELSE BucketInfo(7 * Cardinality(docs), Cardinality(docs), Cardinality(docs), 1, FALSE, FALSE)

\* what the provider holds of bucket b
Contents(st, b) == IF getId(b) \in DOMAIN st THEN st[getId(b)] ELSE {}

\* the provider after a put
StorePut(st, b, doc, timestamp) ==
    With(st, getId(b),
         {e \in Contents(st, b) : e.doc # doc} \cup {Stored(doc, timestamp)})

\* the provider's answer to a get
StoreGet(st, b, doc) ==
    IF \E e \in Contents(st, b) : e.doc = doc
    THEN LET e == CHOOSE x \in Contents(st, b) : x.doc = doc
         IN  GetResult(SpiOk, e.doc, e.timestamp, FALSE)
    ELSE GetResult(SpiOk, NoDocument, 0, FALSE)

\* the documents of the source that go to target t
SplitShare(st, src, t) == {e \in Contents(st, src) : contains(t, DocBucket(e.doc))}

\* the provider after a split, and after the createBucket of the targets the
\* handler creates again: the source is gone, a target exists if it holds
\* documents or was created again
StoreSplit(st, src, targets, recreated) ==
    LET kept == {i \in 1..2 : SplitShare(st, src, targets[i]) # {} \/ recreated[i]}
        rest == Without(st, {getId(src)})
    IN  [k \in (DOMAIN rest) \cup {getId(targets[i]) : i \in kept} |->
            IF \E i \in kept : k = getId(targets[i])
            THEN SplitShare(st, src, targets[CHOOSE i \in kept : k = getId(targets[i])])
            ELSE rest[k]]

EndBuckets == {Root, Left, Right}

EndDocs == {DocIn, DocRight}

\* the commands carry the time of their arrival
EndPuts ==
    {[Mutation("put", b, d, "", FALSE) EXCEPT !.timestamp = CommandTime + done] :
        b \in EndBuckets, d \in EndDocs}

EndGets == {[type |-> "get", bucket |-> b, doc |-> d] : b \in EndBuckets, d \in EndDocs}

EndSplits == {[bucket |-> Root, maxSplitBits |-> Root.bits + 1]}

\* handlePut against this provider, for a bucket the provider has
EndPut ==
    \E cmd \in EndPuts :
    \E response \in Answers(cmd, Fetch("none", SpiOk, FALSE)) :
        /\ getId(cmd.bucket) \in DOMAIN store
        /\ Mutate(cmd, Fetch("none", SpiOk, FALSE), response)
        /\ store' = IF getBucketThrows(cmd) \/ hasError(response)
                    THEN store
                    ELSE StorePut(store, cmd.bucket, cmd.doc, cmd.timestamp)
        /\ UNCHANGED loop

\* handleGet against this provider
EndGet ==
    \E cmd \in EndGets :
    \E result \in (IF getBucketThrows(cmd)
                   THEN {GetResult(SpiOk, NoDocument, 0, FALSE)}
                   ELSE {StoreGet(store, cmd.bucket, cmd.doc)}
                        \cup {GetResult(e, NoDocument, 0, FALSE) : e \in SpiErrors}) :
        /\ Get(cmd, result)
        /\ UNCHANGED <<store, loop>>

\* the outcome of a split as the dispatcher keeps it, with the provider's
\* content before the command
EndOutcome(outcome) ==
    outcome @@ [how |-> "returned", id |-> done + 1, before |-> store]

\* handleSplitBucket against this provider, for a bucket the provider has
EndSplit ==
    \E cmd \in EndSplits :
    \E result \in SpiResults, owns \in BOOLEAN :
        LET targets == CanonicalTargets(cmd.bucket)
            d1 == lockAndGetDisk(index, targets[1])
            d2 == lockAndGetDisk(index, targets[2])
            calls == <<Call("split", <<cmd.bucket, targets, <<d1, d2>>>>, result)>>
            infos == <<StoreInfo(SplitShare(store, cmd.bucket, targets[1])),
                       StoreInfo(SplitShare(store, cmd.bucket, targets[2]))>>
            c == SplitCommit(index, queue, cmd, targets, <<d1, d2>>, infos, ~owns, calls)
            found == remapQueueAfterSplit(queue, getId(cmd.bucket), targets[1], targets[2]).foundInQueue
            failed == Failed(Pre, "split", cmd, convertErrorCode(result),
                             result.errorMessage, calls)
            outcome == IF SplitResultFailed(result) THEN failed ELSE c.last
        IN
        /\ done < MaxCommands
        /\ getId(cmd.bucket) \in DOMAIN store
        /\ ~SplitIllegal(cmd)
        /\ done' = done + 1
        /\ last' = EndOutcome(outcome)
        /\ replies' = Append(replies,
                Reply(done + 1, [type |-> "split", bucket |-> cmd.bucket],
                      ReturnCode(outcome.code, outcome.message), "tracker", 0,
                      outcome.splitInfo))
        /\ index' = IF SplitResultFailed(result) THEN index ELSE c.index
        /\ queue' = IF SplitResultFailed(result) THEN queue ELSE c.queue
        /\ store' = IF SplitResultFailed(result) THEN store
                    ELSE StoreSplit(store, cmd.bucket, targets,
                            <<found[1] /\ infos[1].metaCount = 0,
                              found[2] /\ infos[2].metaCount = 0>>)
        /\ UNCHANGED <<config, executor, threadVars, pending, lanes, notFound, loop>>

\* the root bucket holds some documents, may have an operation for a document
\* of Right queued, and has its entry in the database
InitEnd ==
    /\ \E docs \in InitContents :
        /\ store = With(<<>>, getId(Root), docs)
        /\ index = With(<<>>, getId(Root), Entry(Partition, StoreInfo(docs)))
    /\ queue \in {<<>>, <<[bucket |-> Root, loc |-> DocRight]>>}
    /\ config = FALSE
    /\ last = NoOutcome
    /\ pc = [w \in 1..NumWorkers |-> "idle"]
    /\ wcmd = [w \in 1..NumWorkers |-> NoLocal]
    /\ bucketLocks = {}
    /\ guards = [w \in 1..NumWorkers |-> <<>>]
    /\ done = 0
    /\ replies = <<>>
    /\ pending = {}
    /\ lanes = [l \in 0..(NumLanes - 1) |-> <<>>]
    /\ notFound = NoneNotFound
    /\ executor = FALSE
    /\ loop = NoLoop

NextEnd ==
    \/ EndPut
    \/ EndGet
    \/ EndSplit

SpecEnd == InitEnd /\ [][NextEnd]_vars

\* the dispatcher of the document operations without an executor: every
\* provider call is answered before the handler returns
InitDocs ==
    /\ index = With(<<>>, getId(Root), Entry(Partition, BucketInfo(7, 1, 1, 1, FALSE, FALSE)))
    /\ queue = <<>>
    /\ config = FALSE
    /\ last = NoOutcome
    /\ InitConc
    /\ executor = FALSE

NextDocs ==
    \/ handlePut
    \/ handleRemove
    \/ handleUpdate
    \/ handleGet

SpecDocs == InitDocs /\ [][NextDocs]_vars

\* the thread with its dispatch loop, with or without an executor
InitLoop ==
    /\ index = With(<<>>, getId(Root), Entry(Partition, BucketInfo(7, 1, 1, 1, FALSE, FALSE)))
    /\ queue = <<>>
    /\ config = FALSE
    /\ last = NoOutcome
    /\ pc = [w \in 1..NumWorkers |-> "idle"]
    /\ wcmd = [w \in 1..NumWorkers |-> NoLocal]
    /\ bucketLocks = {}
    /\ guards = [w \in 1..NumWorkers |-> <<>>]
    /\ done = 0
    /\ replies = <<>>
    /\ pending = {}
    /\ lanes = [l \in 0..(NumLanes - 1) |-> <<>>]
    /\ notFound = NoneNotFound
    /\ store = <<>>
    /\ executor \in BOOLEAN
    /\ loop = StartedLoop

NextLoop ==
    \/ LoopTest
    \/ LoopGetMessage
    \/ LoopGetNothing
    \/ LoopProcess
    \/ LoopBroadcast
    \/ LoopClose
    \/ ClosePartition
    \/ FlushCall
    \/ FlushReturn
    \/ DestructorInterrupt
    \/ DestructorJoin
    \/ onComplete
    \/ runTask

SpecLoop == InitLoop /\ [][NextLoop]_vars

\* the dispatch loop without an executor, handed commands and replies, and
\* a caller of flush()
InitReplies ==
    /\ InitLoop
    /\ executor = FALSE

NextReplies ==
    \/ LoopTest
    \/ LoopGetMessage
    \/ LoopGetNothing
    \/ LoopProcess
    \/ LoopProcessReply
    \/ LoopBroadcast
    \/ LoopClose
    \/ ClosePartition
    \/ FlushCall
    \/ FlushReturn
    \/ DestructorInterrupt
    \/ DestructorJoin

SpecReplies == InitReplies /\ [][NextReplies]_vars

\* the same with a loop that keeps making progress: the test of the while,
\* getNextMessage, the handler of a message, and the two places that take
\* the flush monitor all come to an end, and a woken caller of flush() gets
\* the monitor back
FairLoop ==
    /\ SpecReplies
    /\ WF_vars(LoopTest)
    /\ WF_vars(LoopGetMessage \/ LoopGetNothing)
    /\ WF_vars(LoopProcess \/ LoopProcessReply)
    /\ WF_vars(LoopBroadcast)
    /\ WF_vars(LoopClose)
    /\ WF_vars(FlushReturn)

\* the dispatcher of the commands on a whole bucket: the root bucket has no
\* entry, or one with any of the infos; there is no executor
InitBucketOps ==
    /\ index \in {<<>>} \cup {With(<<>>, getId(Root), Entry(Partition, i)) : i \in OpsInfos \ {BucketInfo(9, 2, 2, 1, FALSE, FALSE)}}
    /\ queue = <<>>
    /\ config = FALSE
    /\ last = NoOutcome
    /\ InitConc
    /\ executor = FALSE

NextBucketOps ==
    \/ handleRevert
    \/ handleCreateBucket
    \/ handleDeleteBucket
    \/ handleRecheckBucketInfo
    \/ handleSetBucketState
    \/ DropUnhandled

SpecBucketOps == InitBucketOps /\ [][NextBucketOps]_vars

\* the threads start on an empty database and an empty queue
InitThreads ==
    /\ index = <<>>
    /\ queue = <<>>
    /\ config \in BOOLEAN
    /\ last = NoOutcome
    /\ InitConc
    /\ executor = FALSE

NextConc ==
    \E w \in Workers :
        \/ StartSplit(w)
        \/ StartJoin(w)
        \/ Step(w)

SpecConc == InitThreads /\ [][NextConc]_vars

\* a thread inside a handler takes its next step once it can: the provider's
\* calls return, and a free lock or guard is handed to a thread waiting for it
FairConc == SpecConc /\ \A w \in Workers : WF_vars(Step(w))

-----------------------------------------------------------------------------
(* Properties of the split and join handlers, checked under Spec.          *)

HasEntry(idx, b) == getId(b) \in DOMAIN idx

\* the call of the given name the handler made to the provider, if any
CallsNamed(name) == {i \in DOMAIN last.calls : last.calls[i].call = name}

SplitSucceeded ==
    /\ last.op = "split"
    /\ \E i \in CallsNamed("split") : ~hasError(last.calls[i].result)

SplitEngineFailed ==
    /\ last.op = "split"
    /\ \E i \in CallsNamed("split") : hasError(last.calls[i].result)

JoinSucceeded ==
    /\ last.op = "join"
    /\ \E i \in CallsNamed("join") : ~hasError(last.calls[i].result)

JoinEngineFailed ==
    /\ last.op = "join"
    /\ \E i \in CallsNamed("join") : hasError(last.calls[i].result)

Untouched == index = last.pre.index /\ queue = last.pre.queue

\* C1: after a split whose provider call returned no error the database has
\* no entry for the source bucket, whatever it held for source and targets.
C1_SplitRemovesSource ==
    SplitSucceeded => ~HasEntry(index, last.cmd.bucket)

C1_Witness ==
    /\ SplitSucceeded
    /\ HasEntry(last.pre.index, last.cmd.bucket)
    /\ HasEntry(last.pre.index, last.targets[1])
    /\ ~HasEntry(last.pre.index, last.targets[2])
    /\ ~HasEntry(index, last.cmd.bucket)

\* document locations that differ in the bits a split of the model's buckets adds
CheckLocs == SUBSET {0, 1, MaxUsedBits - 1}

\* C2: the canonical split of a source with n < 58 used bits has the targets
\* (n+1, id) and (n+1, id with bit n set), and every document location the
\* source contains is contained in exactly one of them.
C2_CanonicalSplitPartitions ==
    (SplitSucceeded /\ ~config) =>
        LET src == last.cmd.bucket
            n   == src.bits
            c1  == getId(last.targets[1])
            c2  == getId(last.targets[2])
        IN  /\ n < 58
            /\ c1 = [bits |-> n + 1, loc |-> src.loc]
            /\ c2 = [bits |-> n + 1, loc |-> src.loc \cup {n}]
            /\ \A l \in CheckLocs :
                 contains(src, DocBucket(l)) =>
                    (contains(c1, DocBucket(l)) # contains(c2, DocBucket(l)))

C2_Witness ==
    /\ SplitSucceeded
    /\ ~config
    /\ last.cmd.bucket = Deep
    /\ (MaxUsedBits - 1) \in last.targets[2].loc
    /\ contains(last.targets[2], DocBucket({0, MaxUsedBits - 1}))
    /\ ~contains(last.targets[1], DocBucket({0, MaxUsedBits - 1}))

\* C3: a split of a bucket with 58 or more used bits, or with max split bits
\* not above the used bits, fails with ILLEGAL_PARAMETERS before any provider
\* call and leaves database and queue as they were.
C3_SplitIllegalParameters ==
    (last.op = "split" /\ (\/ last.cmd.bucket.bits >= 58
                           \/ last.cmd.maxSplitBits <= last.cmd.bucket.bits)) =>
        /\ last.code = "ILLEGAL_PARAMETERS"
        /\ last.calls = <<>>
        /\ Untouched

C3_Witness ==
    /\ last.op = "split"
    /\ last.cmd.bucket.bits = 58
    /\ last.code = "ILLEGAL_PARAMETERS"
    /\ HasEntry(index, Root)
    /\ Len(queue) > 0
    /\ Untouched

\* C4: when the provider's split returns an error the operation fails with
\* the converted error code and the provider's message, and database and
\* queue are as before: no target created, no source removed, no remap, no
\* notification.
C4_SplitEngineError ==
    SplitEngineFailed =>
        /\ \E i \in CallsNamed("split") :
              /\ last.code = convertErrorCode(last.calls[i].result)
              /\ last.message = last.calls[i].result.errorMessage
        /\ last.code # "OK"
        /\ Untouched
        /\ last.notified = <<>>

C4_Witness ==
    /\ SplitEngineFailed
    /\ last.code = "DISK_FAILURE"
    /\ HasEntry(index, last.cmd.bucket)
    /\ ~HasEntry(index, Left)
    /\ Len(queue) > 0 /\ queue[1].bucket = Root
    /\ Untouched

\* C5: after a successful join neither source has a database entry and the
\* destination has one.
C5_JoinRemovesSources ==
    JoinSucceeded =>
        /\ \A i \in DOMAIN last.cmd.sources : ~HasEntry(index, last.cmd.sources[i])
        /\ HasEntry(index, last.cmd.bucket)

C5_Witness ==
    /\ JoinSucceeded
    /\ last.cmd.sources[1] # last.cmd.sources[2]
    /\ \A i \in 1..2 : HasEntry(last.pre.index, last.cmd.sources[i])
    /\ ~HasEntry(last.pre.index, last.cmd.bucket)
    /\ HasEntry(index, last.cmd.bucket)

\* last-modified time of a bucket in a database, 0 when it has no entry
LastModifiedIn(idx, b) ==
    IF HasEntry(idx, b) THEN idx[getId(b)].info.lastModified ELSE 0

\* the larger of two numbers
Larger(a, b) == IF a > b THEN a ELSE b

\* C6: after a successful join the destination's last-modified time is the
\* maximum of the sources' times (as their entries were before removal) when
\* the destination had time 0 or no entry, and is unchanged otherwise.
C6_JoinLastModified ==
    JoinSucceeded =>
        LET before == LastModifiedIn(last.pre.index, last.cmd.bucket)
            fromSources == Larger(LastModifiedIn(last.pre.index, last.cmd.sources[1]),
                                  LastModifiedIn(last.pre.index, last.cmd.sources[2]))
        IN  LastModifiedIn(index, last.cmd.bucket) =
                (IF before = 0 THEN fromSources ELSE before)

C6_Witness ==
    /\ JoinSucceeded
    /\ LastModifiedIn(last.pre.index, last.cmd.bucket) = 0
    /\ LastModifiedIn(last.pre.index, Left) = 2
    /\ LastModifiedIn(last.pre.index, Right) = 1
    /\ last.cmd.sources = <<Right, Left>>
    /\ LastModifiedIn(index, last.cmd.bucket) = 2

\* what the join preconditions forbid, written out on the command
JoinMalformed(cmd) ==
    \/ Len(cmd.sources) # 2
    \/ \E i \in DOMAIN cmd.sources :
          \/ getId(cmd.sources[i]) = getId(cmd.bucket)
          \/ cmd.sources[i].bits < cmd.bucket.bits
          \/ {p \in cmd.sources[i].loc : p < cmd.bucket.bits} # getId(cmd.bucket).loc

\* C7: a join fails with ILLEGAL_PARAMETERS, with no provider call, no
\* database change and no remap, exactly when it has not two sources or a
\* source equals or lies outside the destination; every other join reaches
\* the provider's join.
C7_JoinValidation ==
    last.op = "join" =>
        IF JoinMalformed(last.cmd)
        THEN /\ last.code = "ILLEGAL_PARAMETERS"
             /\ last.calls = <<>>
             /\ Untouched
        ELSE /\ CallsNamed("join") # {}
             /\ last.code # "ILLEGAL_PARAMETERS"

C7_Witness ==
    /\ last.op = "join"
    /\ last.cmd.sources = <<Outside, Right>>
    /\ last.code = "ILLEGAL_PARAMETERS"
    /\ HasEntry(index, Right)
    /\ Len(queue) > 0 /\ queue[1].bucket = Right
    /\ Untouched

\* C8 as stated: when the provider's join returns an error the database holds
\* exactly the entries, metadata and disks it held before the command.
C8_JoinErrorLeavesIndex ==
    JoinEngineFailed => index = last.pre.index

\* C8 amended: when the provider's join returns an error no source entry is
\* removed and no metadata changes; the destination's entry, made before the
\* provider call, exists (with default metadata if it was missing) on this
\* thread's disk, every other entry and the queue are as before.
C8_JoinErrorKeepsAllButDest ==
    JoinEngineFailed =>
        LET d == getId(last.cmd.bucket)
        IN  /\ DOMAIN index = DOMAIN last.pre.index \cup {d}
            /\ \A b \in DOMAIN last.pre.index \ {d} : index[b] = last.pre.index[b]
            /\ index[d].disk = Partition
            /\ index[d].info = IF d \in DOMAIN last.pre.index
                               THEN last.pre.index[d].info ELSE DefaultInfo
            /\ queue = last.pre.queue
            /\ last.code # "OK"

C8_Witness ==
    /\ JoinEngineFailed
    /\ HasEntry(last.pre.index, last.cmd.bucket)
    /\ last.pre.index[getId(last.cmd.bucket)].disk # Partition
    /\ index[getId(last.cmd.bucket)].disk = Partition
    /\ \A i \in 1..2 : HasEntry(index, last.cmd.sources[i])

-----------------------------------------------------------------------------
(* Claims about several threads (SpecConc, FairConc).                      *)

Active(w) == pc[w] # "idle"

\* a thread inside a handler that cannot take its next step: the bucket lock
\* or the guard it asks for is held
Blocked(w) == Active(w) /\ ~ENABLED Step(w)

\* C9: under any interleaving of the threads, the guards a thread holds at
\* the same time were taken in strictly ascending BucketId order (a split:
\* source, first target, second target).
C9_GuardsAscending ==
    \A w \in Workers :
        \A i \in DOMAIN guards[w], j \in DOMAIN guards[w] :
            i < j => BucketLess(guards[w][i], guards[w][j])

\* a split holds its three guards while another thread holds a guard too
C9_Witness ==
    \E w \in Workers, v \in Workers :
        /\ w # v
        /\ wcmd[w].op = "split"
        /\ Len(guards[w]) = 3
        /\ Len(guards[v]) >= 1

NoDeadlockState ==
    (\E w \in Workers : Active(w)) => (\E w \in Workers : Active(w) /\ ~Blocked(w))

\* C10: threads running splits and joins on overlapping buckets never all
\* wait for a bucket lock or guard held by another thread, and every split
\* or join a thread has started finishes.
C10_NoDeadlock ==
    /\ []NoDeadlockState
    /\ \A w \in Workers : Active(w) ~> ~Active(w)

\* a join waits for a bucket a split of an overlapping bucket holds
C10_Witness ==
    \E w \in Workers, v \in Workers :
        /\ wcmd[w].op = "join"
        /\ wcmd[v].op = "split"
        /\ Blocked(w)
        /\ ~Blocked(v)
        /\ contains(wcmd[w].cmd.bucket, wcmd[v].cmd.bucket)

-----------------------------------------------------------------------------
(* The queue of pending operations across a split or a join (Spec).        *)

QueuedTo(q, b) == {i \in DOMAIN q : getId(q[i].bucket) = getId(b)}

\* the queue holds the operations it held, one for one and in their order
SameOperations ==
    /\ Len(queue) = Len(last.pre.queue)
    /\ \A i \in DOMAIN queue : queue[i].loc = last.pre.queue[i].loc

\* the split targets that contain the document of a queued operation
TargetsHolding(op) ==
    {t \in 1..2 : contains(last.targets[t], DocBucket(op.loc))}

-----------------------------------------------------------------------------
(* Properties of the document operations and the dispatcher (SpecOps).     *)

MutationHandled == last.op \in MutationTypes

\* the handler went on to the provider's put, removeIfFound or update
MutationIssued ==
    \E i \in DOMAIN last.calls :
        last.calls[i].call \in {SpiCall(last.op), SpiCallAsync(last.op)}

\* what fetching the document gave the handler of a command with a condition
Fetched == last.calls[1].result

\* the handler returned with the tracker failed as given, after the fetch alone
FailedByCheck(code, msg) ==
    /\ ~MutationIssued
    /\ last.how = "returned"
    /\ last.code = code
    /\ last.message = msg
    /\ Len(last.calls) = 1

\* the flag F of the handled command: an update's create-if-non-existent
FlagF == last.op = "update" /\ last.cmd.create

\* C12: the test-and-set check of a mutation with a condition and flag F:
\* document absent and F: proceeds; absent and not F: precondition failed;
\* present and the condition false: precondition failed; present and the
\* condition true: proceeds; a provider error while fetching: the operation
\* fails with the provider's error code and message.  Without a condition the
\* operation proceeds without a fetch.
C12_TestAndSetTable ==
    MutationHandled =>
        IF last.cmd.condition = ""
        THEN /\ \A i \in DOMAIN last.calls : last.calls[i].call # "get"
             /\ last.how # "threw" => MutationIssued
        ELSE /\ last.calls[1].call = "get"
             /\ (Fetched.kind = "absent" /\ FlagF) => MutationIssued
             /\ (Fetched.kind = "absent" /\ ~FlagF) =>
                    \E m \in {"Document does not exist"} :
                        FailedByCheck("TEST_AND_SET_CONDITION_FAILED", m)
             /\ (Fetched.kind = "present" /\ ~Fetched.matches) =>
                    \E m \in {"Condition did not match document"} :
                        FailedByCheck("TEST_AND_SET_CONDITION_FAILED", m)
             /\ (Fetched.kind = "present" /\ Fetched.matches) => MutationIssued
             /\ Fetched.kind = "error" =>
                    FailedByCheck(convertErrorCode(Fetched.result),
                                  Fetched.result.errorMessage)

\* an update that creates missing documents went on although the document
\* was absent
C12_Witness ==
    /\ last.op = "update"
    /\ last.cmd.condition # ""
    /\ FlagF
    /\ Fetched.kind = "absent"
    /\ MutationIssued

\* where in the handler's calls the fetch and the mutation are
CallsAt(names) == {i \in DOMAIN last.calls : last.calls[i].call \in names}

\* the reply sent for the handled command, if one was sent
RepliesTo(id) == {i \in DOMAIN replies : replies[i].id = id}

\* C13: a put, remove or update with a condition fetches and checks before
\* it issues the mutation; when the check fails, no put, removeIfFound or
\* update, synchronous or asynchronous, is issued for the command, and the
\* one reply to it carries the code and message the check set.
C13_CheckBeforeMutation ==
    (MutationHandled /\ last.cmd.condition # "") =>
        LET verdict == retrieveAndMatch(Fetched, FlagF)
        IN  /\ CallsAt({"get"}) = {1}
            /\ \A i \in CallsAt({SpiCall(last.op), SpiCallAsync(last.op)}) : i > 1
            /\ verdict.code # "OK" =>
                /\ ~MutationIssued
                /\ \A p \in pending : p.id # last.id
                /\ \A l \in DOMAIN lanes : \A i \in DOMAIN lanes[l] : lanes[l][i].id # last.id
                /\ Cardinality(RepliesTo(last.id)) = 1
                /\ \A i \in RepliesTo(last.id) :
                     /\ replies[i].code = verdict.code
                     /\ replies[i].message = verdict.message

\* with an executor, a remove whose condition did not match was answered, and
\* an earlier operation is still with the provider
C13_Witness ==
    /\ executor
    /\ last.op = "remove"
    /\ last.cmd.condition # ""
    /\ Fetched.kind = "present"
    /\ ~Fetched.matches
    /\ pending # {}
    /\ \E i \in RepliesTo(last.id) : replies[i].code = "TEST_AND_SET_CONDITION_FAILED"

\* C18: an exception thrown by a handler is answered with exactly one reply,
\* INTERNAL_FAILURE with the exception's text, sent by processMessage; the
\* tracker sends no second reply, nothing of the command is left with the
\* provider, and no command is ever answered twice.
C18_ExceptionAnswered ==
    /\ \A i, j \in DOMAIN replies : replies[i].id = replies[j].id => i = j
    /\ (last.op # "none" /\ last.how = "threw") =>
        /\ Cardinality(RepliesTo(last.id)) = 1
        /\ \A i \in RepliesTo(last.id) :
             /\ replies[i].code = "INTERNAL_FAILURE"
             /\ replies[i].message = last.message
             /\ replies[i].by = "processMessage"
        /\ \A p \in pending : p.id # last.id
        /\ \A l \in DOMAIN lanes : \A i \in DOMAIN lanes[l] : lanes[l][i].id # last.id

\* after the reply to a command whose handler threw, the loop went on and a
\* later command was handled and answered
C18_Witness ==
    \E i, j \in DOMAIN replies :
        /\ i < j
        /\ replies[i].by = "processMessage"
        /\ replies[i].code = "INTERNAL_FAILURE"
        /\ replies[j].id > replies[i].id
        /\ replies[j].by = "tracker"
        /\ replies[j].code = "OK"

\* the replies that finishing tasks sent
TaskReplies == {i \in DOMAIN replies : replies[i].by = "task"}

\* C20: with a sequenced executor, the finishing tasks of two operations on
\* the same bucket run in the order the operations were submitted, whatever
\* the order in which the provider completed them.
C20_SubmissionOrder ==
    \A i, j \in TaskReplies :
        (i < j /\ replies[i].bucket = replies[j].bucket) => replies[i].id < replies[j].id

\* what does hold: the finishing tasks of one bucket are all on the lane of
\* that bucket, and run in the order in which the provider completed the
\* operations
C20_CompletionOrder ==
    /\ \A p \in pending : p.lane = getExecutorId(p.cmd.bucket)
    /\ \A l \in DOMAIN lanes : \A i \in DOMAIN lanes[l] :
         l = getExecutorId(lanes[l][i].cmd.bucket)
    /\ \A l \in DOMAIN lanes : \A i, j \in DOMAIN lanes[l] :
         i < j => lanes[l][i].completed < lanes[l][j].completed
    /\ \A i, j \in TaskReplies :
         (i < j /\ replies[i].bucket = replies[j].bucket) =>
            replies[i].completed < replies[j].completed
    /\ \A i \in TaskReplies : \A l \in DOMAIN lanes : \A j \in DOMAIN lanes[l] :
         replies[i].bucket = getId(lanes[l][j].cmd.bucket) =>
            replies[i].completed < lanes[l][j].completed

\* two operations on one bucket were completed against the order of their
\* submission, and their finishing tasks have both run
C20_Witness ==
    \E i, j \in TaskReplies :
        /\ i < j
        /\ replies[i].bucket = replies[j].bucket
        /\ replies[i].id > replies[j].id
        /\ replies[i].completed < replies[j].completed

-----------------------------------------------------------------------------
(* Properties of the commands on a whole bucket (SpecBucketOps).           *)

\* the key of the handled command's bucket in the database
LastKey == getId(last.cmd.bucket)

\* what the provider answered to the handler's getBucketInfo
InfoRead == last.calls[CHOOSE i \in CallsAt({"getBucketInfo"}) : TRUE].result

\* every reply to the handled command carries the given result
RepliedWith(code, msg) ==
    /\ RepliesTo(last.id) # {}
    /\ \A i \in RepliesTo(last.id) :
         replies[i].code = code /\ replies[i].message = msg

\* the provider's info differs from the command's in checksum or document
\* count, and the provider's bucket is not empty
DeleteMismatch ==
    /\ last.op = "delete"
    /\ ~hasError(InfoRead.result)
    /\ \/ InfoRead.info.checksum # last.cmd.info.checksum
       \/ InfoRead.info.docCount # last.cmd.info.docCount
    /\ ~empty(InfoRead.info)

\* C14: a DeleteBucket whose bucket info differs from the provider's (checksum
\* or document count), the provider's bucket not being empty, fails: its reply
\* carries an error, the entry of the bucket is unchanged and deleteBucket is
\* not called.
C14_MismatchFailsDelete ==
    DeleteMismatch =>
        /\ last.code # "OK"
        /\ \A i \in RepliesTo(last.id) : replies[i].code # "OK"
        /\ index = last.pre.index
        /\ CallsAt({"deleteBucket"}) = {}

\* the part of it the handler does keep: the database is unchanged and
\* deleteBucket is not called
C14_MismatchKeepsBucket ==
    DeleteMismatch =>
        /\ index = last.pre.index
        /\ CallsAt({"deleteBucket"}) = {}

C14_Witness ==
    /\ DeleteMismatch
    /\ LastKey \in DOMAIN index
    /\ RepliedWith("OK", "")

\* C15: a DeleteBucket that passed the check and called deleteBucket keeps an
\* entry with a meta count above zero, its checksum and counts reset to zero
\* and its ready and active state as before; without an entry, or with a meta
\* count of zero, the database is left as it was.
C15_DeleteResetsEntry ==
    (last.op = "delete" /\ CallsAt({"deleteBucket"}) # {}) =>
        LET pre == last.pre.index
            k == LastKey
        IN  IF k \in DOMAIN pre /\ pre[k].info.metaCount > 0
            THEN /\ DOMAIN index = DOMAIN pre
                 /\ \A x \in DOMAIN pre \ {k} : index[x] = pre[x]
                 /\ index[k].disk = pre[k].disk
                 /\ index[k].info.checksum = 0
                 /\ index[k].info.docCount = 0
                 /\ index[k].info.metaCount = 0
                 /\ index[k].info.ready = pre[k].info.ready
                 /\ index[k].info.active = pre[k].info.active
            ELSE index = pre

\* a ready and active bucket with a document was deleted, and is still ready
\* and active
C15_Witness ==
    /\ last.op = "delete"
    /\ CallsAt({"deleteBucket"}) # {}
    /\ LastKey \in DOMAIN last.pre.index
    /\ last.pre.index[LastKey].info.metaCount > 0
    /\ last.pre.index[LastKey].info.active
    /\ index[LastKey].info.ready
    /\ index[LastKey].info.active
    /\ index[LastKey].info.metaCount = 0

\* one step of the dispatcher that handles a RecheckBucketInfo
RecheckStep == last'.op = "recheck" /\ done' = done + 1

\* C16: a RecheckBucketInfo notifies and overwrites the entry only if the
\* provider's info differs from the entry's; handled twice in a row for the
\* same bucket with the same info from the provider, the second neither
\* notifies nor writes.
C16_RecheckIdempotent ==
    [][RecheckStep =>
        LET k == getId(last'.cmd.bucket)
            read == last'.calls[1].result.info
            differs == k \in DOMAIN index /\ index[k].info # read
        IN  /\ (last'.notified # <<>> \/ index' # index) => differs
            /\ differs =>
                 /\ last'.notified = <<[bucket |-> k, info |-> read]>>
                 /\ index' = With(index, k, Entry(index[k].disk, read))
            /\ (/\ last.op = "recheck"
                /\ last.cmd = last'.cmd
                /\ last.calls[1].result = last'.calls[1].result) =>
                 /\ last'.notified = <<>>
                 /\ index' = index
    ]_vars

\* a second recheck in a row found the entry holding what the provider said,
\* after the first one had written it
C16_Witness ==
    /\ last.op = "recheck"
    /\ last.after = "recheck"
    /\ LastKey \in DOMAIN last.pre.index
    /\ last.pre.index[LastKey].info = InfoRead.info
    /\ InfoRead.info # DefaultInfo
    /\ last.notified = <<>>
    /\ index = last.pre.index
    /\ Len(replies) = 2

\* C17: a RecheckBucketInfo for a bucket without an entry does nothing: no
\* entry is created, nothing is notified and the command is not failed.
C17_RecheckWithoutEntry ==
    (last.op = "recheck" /\ LastKey \notin DOMAIN last.pre.index) =>
        /\ index = last.pre.index
        /\ last.notified = <<>>
        /\ last.code = "OK"
        /\ RepliedWith("OK", "")

\* the provider holds a bucket with a document that the database does not
C17_Witness ==
    /\ last.op = "recheck"
    /\ LastKey \notin DOMAIN last.pre.index
    /\ InfoRead.info.docCount > 0
    /\ LastKey \notin DOMAIN index
    /\ RepliedWith("OK", "")

\* the provider calls the handler made that failed
FailedCalls ==
    {i \in CallsAt({"put", "removeIfFound", "update", "removeEntry", "createBucket",
                    "deleteBucket", "setActiveState"}) :
        last.calls[i].result \in SpiErrors}

\* C19: whenever a provider call made for a command fails, the reply to the
\* command carries the provider's error code and message, not success.
C19_EngineFailureReplied ==
    (last.op # "none" /\ last.how = "returned" /\ FailedCalls # {}) =>
        \E i \in FailedCalls :
            RepliedWith(convertErrorCode(last.calls[i].result),
                        last.calls[i].result.errorMessage)

\* a revert whose removeEntry failed was answered with success
C19_Witness ==
    /\ last.op = "revert"
    /\ FailedCalls # {}
    /\ RepliedWith("OK", "")

-----------------------------------------------------------------------------
(* The replies and the counters of a remove (SpecOps).                     *)

\* a step that sends the reply to a remove whose call the provider answered:
\* by the tracker the handler returned, or by the finishing task
RemoveAnswered ==
    /\ Len(replies') = Len(replies) + 1
    /\ replies'[Len(replies')].type = "remove"
    /\ \/ replies'[Len(replies')].by = "task"
       \/ /\ replies'[Len(replies')].by = "tracker"
          /\ last'.calls # <<>>
          /\ last'.calls[Len(last'.calls)].call = "removeIfFound"

\* what the provider had answered for the reply sent in this step
RemoveResponse ==
    IF replies'[Len(replies')].by = "task"
    THEN LET l == CHOOSE l \in DOMAIN lanes : lanes'[l] # lanes[l]
         IN  Head(lanes[l]).response
    ELSE last'.calls[Len(last'.calls)].result

\* C21: a remove, with or without an executor: the call succeeded and the
\* document was not found: the reply is OK with timestamp 0 and the not-found
\* counter goes up by one; succeeded and found: the reply has the command's
\* timestamp and the counter stays; the provider failed: the reply carries
\* its error and the counter stays.
C21_RemoveOutcomes ==
    [][RemoveAnswered =>
        LET r == replies'[Len(replies')]
            response == RemoveResponse
        IN  /\ (~hasError(response) /\ ~response.wasFound) =>
                 /\ r.code = "OK"
                 /\ r.body = [timestamp |-> 0]
                 /\ notFound'.remove = notFound.remove + 1
            /\ (~hasError(response) /\ response.wasFound) =>
                 /\ r.code = "OK"
                 /\ r.body = [timestamp |-> CommandTime]
                 /\ notFound' = notFound
            /\ hasError(response) =>
                 /\ r.code = convertErrorCode(response)
                 /\ r.message = response.errorMessage
                 /\ notFound' = notFound
    ]_vars

\* what holds of it: the replies are as said, and the counter goes up whenever
\* the result says not found, which a failed call's result does
C21_RemoveCounted ==
    [][RemoveAnswered =>
        LET r == replies'[Len(replies')]
            response == RemoveResponse
        IN  /\ r.code = convertErrorCode(response)
            /\ r.message = response.errorMessage
            /\ ~hasError(response) =>
                 r.body = [timestamp |-> IF response.wasFound THEN CommandTime ELSE 0]
            /\ notFound'.remove = notFound.remove + (IF response.wasFound THEN 0 ELSE 1)
            /\ notFound'.get = notFound.get
    ]_vars

\* the one command handled was a remove, its finishing task replied with the
\* provider's error, and a document was counted as not found
C21_Witness ==
    /\ executor
    /\ Len(replies) = 1
    /\ done = 1
    /\ replies[1].type = "remove"
    /\ replies[1].by = "task"
    /\ replies[1].code = "DISK_FAILURE"
    /\ notFound.remove = 1

-----------------------------------------------------------------------------
(* Properties of the dispatch loop, flush() and the destructor (SpecLoop). *)

\* C22: the dispatch loop exits only when its partition is closed or the
\* thread interrupted, and flush() does not return before the loop has seen
\* that and set the closed flag: flush() never returns while the loop is
\* still running.
C22_FlushWaitsForClose ==
    /\ loop.at = "exited" => (loop.partitionClosed \/ loop.interrupted)
    /\ loop.flush = "returned" => (loop.closed /\ loop.at = "exited")

\* what holds of it: the loop leaves only when closed or interrupted, the
\* closed flag is set exactly when it has left, and a flush() that found the
\* flag clear has waited for a broadcast
C22_LoopExit ==
    /\ loop.at = "exited" => (loop.partitionClosed \/ loop.interrupted)
    /\ loop.closed <=> loop.at = "exited"
    /\ [][(loop.flush = "out" /\ loop'.flush = "returned") => loop.closed]_vars
    /\ [][(loop.flush = "waiting" /\ loop'.flush # "waiting") =>
            (loop.at \in {"broadcast", "closing"} /\ loop'.flush = "woken")]_vars

\* flush() has returned, the partition is open, nobody interrupted the
\* thread, and the loop is about to take the next message
C22_Witness ==
    /\ loop.flush = "returned"
    /\ ~loop.closed
    /\ ~loop.partitionClosed
    /\ ~loop.interrupted
    /\ loop.at = "get"
    /\ done < MaxCommands

\* the commands handled so far that have been replied to
Replied == {replies[i].id : i \in DOMAIN replies}

\* C23: the destructor returns only after the loop has exited, and then
\* every operation the loop took has had its provider call completed and its
\* reply sent, also the operations issued asynchronously.
C23_NothingInFlight ==
    loop.destructor = "returned" =>
        /\ loop.at = "exited"
        /\ pending = {}
        /\ \A l \in DOMAIN lanes : lanes[l] = <<>>
        /\ Replied = 1..done

\* what holds of it: the destructor returns only after the loop has exited,
\* the loop is never left with a message taken and not handled, and without
\* an executor every command handled has been replied to
C23_JoinedBeforeReturn ==
    /\ loop.destructor = "returned" => loop.at = "exited"
    /\ loop.destructor = "returned" => loop.interrupted
    /\ ~executor => (pending = {} /\ (loop.at # "process" => Replied = 1..done))

\* the destructor has returned while a put is still with the provider
C23_Witness ==
    /\ executor
    /\ loop.destructor = "returned"
    /\ pending # {}
    /\ Replied # 1..done


-----------------------------------------------------------------------------
(* The two provider calls of a CreateBucket (SpecBucketOps).               *)

\* the handled command was a CreateBucket
Created == last.op = "create" /\ last.how = "returned"

\* createBucket succeeded and the activation that followed it failed
ActivationFailed ==
    /\ Created
    /\ Len(last.calls) = 2
    /\ last.calls[1].result = SpiOk
    /\ last.calls[2].result \in SpiErrors

\* createBucket first; setActiveState after it exactly when the command marks
\* the bucket active; nothing is called to undo the creation
C24_CreateThenActivate ==
    Created =>
        /\ last.calls[1].call = "createBucket"
        /\ last.calls[1].args = <<last.cmd.bucket>>
        /\ Len(last.calls) = (IF last.cmd.active THEN 2 ELSE 1)
        /\ last.cmd.active =>
               /\ last.calls[2].call = "setActiveState"
               /\ last.calls[2].args = <<last.cmd.bucket, "ACTIVE">>
        /\ index = last.pre.index

\* C24: createBucket is called first and setActiveState after it if and only
\* if the command marks the bucket active; when createBucket succeeds and the
\* activation fails, nothing is rolled back and the reply carries the error.
C24_ActivationFailureSurfaced ==
    /\ C24_CreateThenActivate
    /\ ActivationFailed =>
           RepliedWith(convertErrorCode(last.calls[2].result),
                       last.calls[2].result.errorMessage)

\* a bucket was created, its activation failed, and the reply says success
C24_Witness ==
    /\ ActivationFailed
    /\ last.cmd.active
    /\ RepliedWith("OK", "")

-----------------------------------------------------------------------------
(* The guards of a thread between two commands (SpecConc).                 *)

\* C25: every guard of a database entry a handler took is released when the
\* handler is left, whichever way it is left: a thread between two commands
\* holds no guard (and none of the bucket locks the handler took).
C25_NoGuardBetweenCommands ==
    \A w \in Workers :
        pc[w] = "idle" =>
            /\ guards[w] = <<>>
            /\ \A l \in bucketLocks : l[2] # w

\* a thread is back between two commands after a handler that held guards,
\* while another thread holds the guard of an entry
C25_Witness ==
    /\ done >= 2
    /\ \E w \in Workers, v \in Workers :
        /\ pc[w] = "idle"
        /\ pc[v] # "idle"
        /\ guards[v] # <<>>
        /\ index # <<>>

-----------------------------------------------------------------------------
(* The active flag after a SetBucketState (SpecBucketOps).                 *)

\* the handled command was a SetBucketState
StateSet == last.op = "setstate" /\ last.how = "returned"

\* the notifier was asked and said the distributor does not own the bucket
OwnershipChanged ==
    \E i \in DOMAIN last.calls :
        last.calls[i].call = "distributorOwns" /\ ~last.calls[i].result

\* C29: when setActiveState succeeds and the bucket has an entry, the entry's
\* active flag is afterwards the requested one (the rest of the entry as it
\* was) and a notification is sent only if the ownership changed; when
\* setActiveState fails, the database is unchanged and nothing is notified.
C29_ActiveFlagFollowsEngine ==
    StateSet =>
        LET k == getId(last.cmd.bucket)
            result == last.calls[1].result
            had == k \in DOMAIN last.pre.index
        IN  /\ last.calls[1].call = "setActiveState"
            /\ (~hasError(result) /\ had) =>
                   /\ k \in DOMAIN index
                   /\ index[k].info.active = (last.cmd.state = "ACTIVE")
                   /\ index[k] = [last.pre.index[k] EXCEPT
                                      !.info.active = (last.cmd.state = "ACTIVE")]
                   /\ last.notified # <<>> => OwnershipChanged
                   /\ \A i \in DOMAIN last.notified :
                          last.notified[i] = [bucket |-> k, info |-> index[k].info]
            /\ hasError(result) =>
                   /\ index = last.pre.index
                   /\ last.notified = <<>>

\* an active flag was changed by a SetBucketState and the change notified
C29_Witness ==
    /\ StateSet
    /\ ~hasError(last.calls[1].result)
    /\ getId(last.cmd.bucket) \in DOMAIN last.pre.index
    /\ index # last.pre.index
    /\ last.notified # <<>>

-----------------------------------------------------------------------------
(* The routing of the commands (SpecBucketOps).                            *)

\* C27: a command the switch has no case for is dropped: no handler runs, the
\* provider is not called, the database is unchanged and no reply is ever sent
\* for it; a command the switch has a case for is given to the one handler of
\* its type, and that handler's tracker answers it once.
C27_UnhandledDropped ==
    /\ \A i \in DOMAIN replies : handleCommandSplitByType(replies[i].type) # "none"
    /\ last.op # "none" =>
        IF handleCommandSplitByType(last.cmd.type) = "none"
        THEN /\ last.how = "dropped"
             /\ last.calls = <<>>
             /\ last.notified = <<>>
             /\ index = last.pre.index
             /\ RepliesTo(last.id) = {}
        ELSE /\ last.op = handleCommandSplitByType(last.cmd.type)
             /\ last.how = "returned"
             /\ Cardinality(RepliesTo(last.id)) = 1

\* a command without a handler was dropped after another had been answered
C27_Witness ==
    /\ last.op = "unhandled"
    /\ last.how = "dropped"
    /\ last.cmd.type = "internal:other"
    /\ replies # <<>>
    /\ index # <<>>

-----------------------------------------------------------------------------
(* A document that is not of the command's bucket (SpecDocs).              *)

\* the handled command names a document whose bucket, cut to the used bits of
\* the command's bucket, is another bucket
DocumentMisplaced ==
    /\ last.op \in {"put", "remove", "update", "get"}
    /\ ~BucketEq(BucketId(last.cmd.bucket.bits, DocBucket(last.cmd.doc)), last.cmd.bucket)

-----------------------------------------------------------------------------
(* Containment as equality of masked ids (SpecJoins).                      *)

\* the location bits of an id as two words of half their number
HalfBits == CountBitsStart \div 2

RECURSIVE WordOf(_)
WordOf(ps) ==
    IF ps = {} THEN 0
    ELSE LET p == CHOOSE x \in ps : TRUE IN 2 ^ p + WordOf(ps \ {p})

LowWord(b) == WordOf({p \in b.loc : p < HalfBits})

HighWord(b) == WordOf({p - HalfBits : p \in {x \in b.loc : x >= HalfBits}})

\* the id of b masked to n used bits: n, and the location modulo 2^n
MaskedTo(b, n) ==
    [bits |-> n,
     low  |-> LowWord(b) % (2 ^ (IF n < HalfBits THEN n ELSE HalfBits)),
     high |-> HighWord(b) % (2 ^ (IF n > HalfBits THEN n - HalfBits ELSE 0))]

\* b's id masked to a's used bits is a's id
MaskedEqual(a, b) == MaskedTo(b, a.bits) = MaskedTo(a, a.bits)

\* the handler went past validateJoinCommand
JoinAccepted == last.op = "join" /\ CallsNamed("join") # {}

\* C30: for bucket ids a and b with a's used bits at most b's, a contains b
\* if and only if b's id masked to a's used bits equals a's id; so a join is
\* accepted only if each source's id masked to the destination's used bits is
\* the destination's id.
C30_ContainsIsMaskedEquality ==
    last.op = "join" =>
        /\ \A i \in DOMAIN last.cmd.sources :
               last.cmd.bucket.bits <= last.cmd.sources[i].bits =>
                   (contains(last.cmd.bucket, last.cmd.sources[i])
                        <=> MaskedEqual(last.cmd.bucket, last.cmd.sources[i]))
        /\ JoinAccepted =>
               \A i \in DOMAIN last.cmd.sources :
                   /\ last.cmd.bucket.bits <= last.cmd.sources[i].bits
                   /\ MaskedEqual(last.cmd.bucket, last.cmd.sources[i])

\* a join was accepted whose sources have bits set above the destination's
\* used bits and above their own
C30_Witness ==
    /\ JoinAccepted
    /\ last.cmd.bucket = B(1, {0, 2})
    /\ last.cmd.sources = <<B(2, {0, 1, 2}), B(3, {0})>>
    /\ getId(last.cmd.bucket) \in DOMAIN index

-----------------------------------------------------------------------------
(* Put, get, split and get again (SpecEnd).                                *)

\* the command handled last was a split by one bit that succeeded
SplitByOneDone ==
    /\ last.op = "split"
    /\ last.code = "OK"
    /\ last.cmd.maxSplitBits = last.cmd.bucket.bits + 1

\* a get that follows a successful put of the same document to the same
\* bucket returns the document with the timestamp of the put
GetAfterPut ==
    (/\ last.op = "put" /\ last.how = "returned" /\ last.code = "OK"
     /\ last'.op = "get" /\ last'.how = "returned" /\ last'.code = "OK"
     /\ last'.id = last.id + 1
     /\ last'.cmd.bucket = last.cmd.bucket
     /\ last'.cmd.doc = last.cmd.doc)
    => last'.body = [doc |-> last.cmd.doc, timestamp |-> last.cmd.timestamp,
                     tombstone |-> FALSE]

\* a get that follows a successful split, sent to the target that contains
\* the document's bucket, returns what the source held of the document
GetAfterSplit ==
    \A e \in Contents(last.before, last.cmd.bucket) :
        (/\ last'.op = "get" /\ last'.how = "returned" /\ last'.code = "OK"
         /\ last'.id = last.id + 1
         /\ last'.cmd.doc = e.doc
         /\ \E i \in 1..2 : BucketEq(last'.cmd.bucket, last.targets[i])
         /\ contains(last'.cmd.bucket, DocBucket(e.doc)))
        => last'.body = [doc |-> e.doc, timestamp |-> e.timestamp, tombstone |-> FALSE]

\* after the split the database has no entry for the source and one for each
\* of the two targets
BothChildrenEntered ==
    SplitByOneDone =>
        /\ ~HasEntry(index, last.cmd.bucket)
        /\ \A i \in 1..2 : HasEntry(index, CanonicalTargets(last.cmd.bucket)[i])

\* after the split the database has no entry for the source; a target has an
\* entry exactly if it holds documents or had queued operations moved to it
ChildrenWithContentEntered ==
    SplitByOneDone =>
        /\ ~HasEntry(index, last.cmd.bucket)
        /\ \A i \in 1..2 :
            LET t == CanonicalTargets(last.cmd.bucket)[i]
            IN  HasEntry(index, t) <=>
                    \/ Contents(store, t) # {}
                    \/ \E j \in DOMAIN queue : getId(queue[j].bucket) = getId(t)
        /\ \A e \in Contents(last.before, last.cmd.bucket) :
               \E i \in 1..2 :
                   /\ contains(last.targets[i], DocBucket(e.doc))
                   /\ HasEntry(index, last.targets[i])

-----------------------------------------------------------------------------
(* Replies handed to the thread (SpecReplies).                             *)

\* the names of the reply handlers of the MergeHandler
MergeReplyHandlers == {"handleGetBucketDiffReply", "handleApplyBucketDiffReply"}

\* C31: a reply taken from the queue is given to the handler of the
\* GetBucketDiff replies or of the ApplyBucketDiff replies according to its
\* type, and to nothing else; whether the handler returns or throws, no reply
\* is sent for the message, the database is as it was, and the loop is left
\* only when the partition is closed or the thread interrupted.
C31_ReplySwallowed ==
    /\ last.op = "reply" =>
        /\ isReply(last.cmd.type)
        /\ last.calls =
             CASE last.cmd.type = "getbucketdiff_reply" ->
                    <<Call("handleGetBucketDiffReply", <<last.cmd.type>>, last.how)>>
               [] last.cmd.type = "applybucketdiff_reply" ->
                    <<Call("handleApplyBucketDiffReply", <<last.cmd.type>>, last.how)>>
               [] OTHER -> <<>>
        /\ last.how \in {"returned", "threw"}
        /\ RepliesTo(last.id) = {}
        /\ index = last.pre.index
        /\ loop.at \in {"closing", "exited"} => (loop.interrupted \/ loop.partitionClosed)
    /\ (last.op \notin {"none", "reply"}) =>
        /\ ~isReply(last.cmd.type)
        /\ \A i \in DOMAIN last.calls : last.calls[i].call \notin MergeReplyHandlers

\* the handler of a reply threw, nothing was sent, and the loop has taken
\* the next message
C31_Witness ==
    /\ last.op = "reply"
    /\ last.how = "threw"
    /\ last.id = 1
    /\ replies = <<>>
    /\ loop.at = "process"
    /\ ~loop.interrupted
    /\ ~loop.partitionClosed


-----------------------------------------------------------------------------
(* The entries of the split targets (SpecSplits).                          *)

\* what the provider answered to getBucketInfo for target i of the split
TargetAnswer(i) ==
    LET c == CHOOSE j \in CallsNamed("getBucketInfo") :
                 last.calls[j].args[1] = getId(last.targets[i])
    IN  last.calls[c].result

\* operations that were queued to the source are now queued to target i
TargetHasQueued(i) ==
    \E j \in QueuedTo(queue, last.targets[i]) :
        getId(last.pre.queue[j].bucket) = getId(last.cmd.bucket)

\* the provider was told to create target i again
TargetRecreated(i) ==
    \E j \in CallsNamed("createBucket") : last.calls[j].args[1] = getId(last.targets[i])

\* the infos the reply of the split lists for target i
TargetListed(i) ==
    {last.splitInfo[j].info : j \in {k \in DOMAIN last.splitInfo :
                                         last.splitInfo[k].bucket = getId(last.targets[i])}}

\* C32, as claimed: the three cases are told apart by the number of documents
\* of the target, and the sentinel is put in its document count.
C32_TargetsByDocuments ==
    SplitSucceeded =>
        \A i \in 1..2 :
            LET k == getId(last.targets[i])
                answer == TargetAnswer(i)
            IN  CASE answer.docCount = 0 /\ TargetHasQueued(i) ->
                       /\ TargetRecreated(i)
                       /\ k \in DOMAIN index
                       /\ index[k].info.docCount # 0
                       /\ TargetListed(i) # {}
                  [] answer.docCount = 0 /\ ~TargetHasQueued(i) ->
                       /\ k \notin DOMAIN index
                       /\ TargetListed(i) = {}
                  [] OTHER ->
                       /\ k \in DOMAIN index
                       /\ index[k].info = answer
                       /\ TargetListed(i) = {answer}

\* C32: after a successful split, a target without any entry (document or
\* remove entry) that has operations remapped to it is created again in the
\* provider, its database entry is written with the meta count set to 1 (the
\* document count stays 0) and it is listed in the reply; a target without
\* any entry and without remapped operations has its database entry removed
\* and is not listed; a target with entries has its database entry written
\* with the provider's info and is listed, and is not created again.  A
\* target with remapped operations always has a database entry.
C32_TargetsByEntries ==
    SplitSucceeded =>
        \A i \in 1..2 :
            LET k == getId(last.targets[i])
                answer == TargetAnswer(i)
            IN  /\ CASE answer.metaCount = 0 /\ TargetHasQueued(i) ->
                          /\ TargetRecreated(i)
                          /\ k \in DOMAIN index
                          /\ index[k].info = [answer EXCEPT !.metaCount = 1]
                          /\ index[k].info.docCount = 0
                          /\ TargetListed(i) = {index[k].info}
                     [] answer.metaCount = 0 /\ ~TargetHasQueued(i) ->
                          /\ k \notin DOMAIN index
                          /\ TargetListed(i) = {}
                          /\ ~TargetRecreated(i)
                     [] OTHER ->
                          /\ k \in DOMAIN index
                          /\ index[k].info = answer
                          /\ TargetListed(i) = {answer}
                          /\ ~TargetRecreated(i)
                /\ TargetHasQueued(i) => k \in DOMAIN index

\* one target holds only a remove entry and has no operation queued, the
\* other is empty and has one
C32_Witness ==
    /\ SplitSucceeded
    /\ \E i \in 1..2 :
        /\ TargetAnswer(i) = TombstoneInfo
        /\ ~TargetHasQueued(i)
        /\ getId(last.targets[i]) \in DOMAIN index
        /\ TargetAnswer(3 - i).metaCount = 0
        /\ TargetHasQueued(3 - i)
        /\ TargetRecreated(3 - i)


\* the infos the notifications of the split carry for the bucket of key k
NotifiedFor(k) ==
    {last.notified[j].info : j \in {n \in DOMAIN last.notified : last.notified[n].bucket = k}}

\* C33, as claimed: a notification with the target's info is sent for a
\* target exactly if the sending distributor does not own that target.
C33_OwnershipPerTarget ==
    SplitSucceeded =>
        \A i \in 1..2 :
            NotifiedFor(getId(last.targets[i])) # {}
                <=> ~distributorOwns(last.cmd.sourceIndex, last.targets[i])

\* C33: after a successful split, ownership is determined once, for the
\* source bucket: if the sending distributor does not own the source, one
\* notification is sent for each of the two targets, with the info the
\* provider gave for it, and one for the source if it had an entry, with the
\* info of that entry; if it owns the source, no notification is sent.
C33_OwnershipOfSource ==
    SplitSucceeded =>
        LET src == getId(last.cmd.bucket)
            changed == ~distributorOwns(last.cmd.sourceIndex, last.cmd.bucket)
        IN  /\ \A i \in 1..2 :
                NotifiedFor(getId(last.targets[i])) =
                    IF changed THEN {TargetAnswer(i)} ELSE {}
            /\ NotifiedFor(src) =
                    IF changed /\ src \in DOMAIN last.pre.index
                    THEN {last.pre.index[src].info} ELSE {}
            /\ Len(last.notified) =
                    IF changed THEN (IF src \in DOMAIN last.pre.index THEN 3 ELSE 2) ELSE 0

\* the sender owns the source and not the second target: nothing is sent
C33_Witness ==
    /\ SplitSucceeded
    /\ distributorOwns(last.cmd.sourceIndex, last.cmd.bucket)
    /\ ~distributorOwns(last.cmd.sourceIndex, last.targets[2])
    /\ last.notified = <<>>
    /\ getId(last.targets[2]) \in DOMAIN index

\* the sender owns the second target and not the source: both are notified
C33_WitnessOther ==
    /\ SplitSucceeded
    /\ ~distributorOwns(last.cmd.sourceIndex, last.cmd.bucket)
    /\ distributorOwns(last.cmd.sourceIndex, last.targets[2])
    /\ NotifiedFor(getId(last.targets[2])) # {}


-----------------------------------------------------------------------------
(* The flag of the test-and-set check, by command (SpecOps).               *)

\* the check found the document missing
FetchedAbsent ==
    /\ MutationHandled
    /\ last.cmd.condition # ""
    /\ Fetched.kind = "absent"

\* C34: a put or a remove with a condition whose document is missing fails
\* with the precondition code and is not given to the provider; an update
\* with a condition whose document is missing goes on to the provider exactly
\* if its create-if-non-existent flag is set, and fails with the precondition
\* code otherwise.  When the document is there, the flag changes nothing.
C34_MissingImpliesMatchByCommand ==
    /\ FetchedAbsent =>
        IF last.op = "update" /\ last.cmd.create
        THEN /\ MutationIssued
             /\ last.how \in {"returned", "submitted"}
             /\ (last.how = "returned" /\ last.code # "OK") =>
                    \E i \in CallsAt({"update"}) :
                        /\ hasError(last.calls[i].result)
                        /\ last.code = convertErrorCode(last.calls[i].result)
        ELSE /\ last.op \in {"put", "remove", "update"}
             /\ ~MutationIssued
             /\ last.how = "returned"
             /\ last.code = "TEST_AND_SET_CONDITION_FAILED"
             /\ Cardinality(RepliesTo(last.id)) = 1
             /\ \A i \in RepliesTo(last.id) :
                    replies[i].code = "TEST_AND_SET_CONDITION_FAILED"
    /\ (MutationHandled /\ last.cmd.condition # "" /\ Fetched.kind = "present") =>
            (MutationIssued <=> Fetched.matches)

\* a put with a condition on a missing document was refused, after an
\* update had been answered with success
C34_Witness ==
    /\ FetchedAbsent
    /\ last.op = "put"
    /\ last.code = "TEST_AND_SET_CONDITION_FAILED"
    /\ last.after = "update"
    /\ \E i \in DOMAIN replies : replies[i].type = "update" /\ replies[i].code = "OK"


-----------------------------------------------------------------------------
(* The bucket locks and the guards of a join (SpecConc).                   *)

\* the bucket locks thread w holds besides the one of its command's bucket
SourceLocksOf(w) ==
    {l[1] : l \in {x \in bucketLocks : x[2] = w}} \ {getId(wcmd[w].cmd.bucket)}

\* the places of a join before, between and after its two source locks
BeforeSourceLocks == {"join_get_dest", "join_write_dest", "join_lock1"}

AfterSourceLocks ==
    {"join_engine", "join_get_source1", "join_remove_source1", "join_get_source2",
     "join_remove_source2", "join_get_dest_again", "join_update_dest"}

\* C35: a join locks its sources in ascending BucketId order, whatever the
\* order the command lists them in: it holds no source lock before the first,
\* the lock of the lower source alone when it asks for the second, and asks
\* for a second only when the sources differ; with both sources the same
\* bucket it takes one lock and goes on to the provider.
C35_SourceLocksAscending ==
    \A w \in Workers :
        wcmd[w].op = "join" =>
            LET ss == wcmd[w].cmd.sources
                b == wcmd[w].buckets
                same == BucketEq(ss[1], ss[2])
            IN  /\ {getId(b[1]), getId(b[2])} = {getId(ss[1]), getId(ss[2])}
                /\ ~BucketLess(b[2], b[1])
                /\ pc[w] \in BeforeSourceLocks => SourceLocksOf(w) = {}
                /\ pc[w] = "join_lock2" =>
                    /\ ~same
                    /\ SourceLocksOf(w) = {getId(b[1])}
                    /\ BucketLess(b[1], b[2])
                /\ pc[w] \in AfterSourceLocks =>
                    /\ SourceLocksOf(w) = {getId(ss[1]), getId(ss[2])}
                    /\ Cardinality(SourceLocksOf(w)) = IF same THEN 1 ELSE 2
                    /\ Len(wcmd[w].disks) = IF same THEN 1 ELSE 2

\* a join whose command lists the higher source first holds the lock of the
\* lower one and asks for the other, while another thread is in a handler
C35_Witness ==
    \E w \in Workers, v \in Workers :
        /\ w # v
        /\ wcmd[w].op = "join"
        /\ pc[w] = "join_lock2"
        /\ BucketLess(wcmd[w].cmd.sources[2], wcmd[w].cmd.sources[1])
        /\ SourceLocksOf(w) = {getId(wcmd[w].cmd.sources[2])}
        /\ Active(v)

\* C37: a join holds at most one guard of a database entry at a time: the
\* guard of the destination is given back before the first source lock is
\* asked for, the guard of a source before the next source's is taken, and
\* the guard of the destination is taken again only when no source guard is
\* held.
C37_OneGuardInJoin ==
    \A w \in Workers :
        wcmd[w].op = "join" =>
            LET dest == getId(wcmd[w].cmd.bucket)
                b == wcmd[w].buckets
            IN  /\ Len(guards[w]) <= 1
                /\ guards[w] =
                     CASE pc[w] \in {"join_write_dest", "join_update_dest"} -> <<dest>>
                       [] pc[w] = "join_remove_source1" -> <<getId(b[1])>>
                       [] pc[w] = "join_remove_source2" -> <<getId(b[2])>>
                       [] OTHER -> <<>>

\* a join of two different sources has let go of both source guards and
\* holds the guard of the destination again
C37_Witness ==
    \E w \in Workers :
        /\ wcmd[w].op = "join"
        /\ pc[w] = "join_update_dest"
        /\ ~BucketEq(wcmd[w].buckets[1], wcmd[w].buckets[2])
        /\ guards[w] = <<getId(wcmd[w].cmd.bucket)>>
        /\ getId(wcmd[w].buckets[1]) \notin DOMAIN index
        /\ getId(wcmd[w].buckets[2]) \notin DOMAIN index


-----------------------------------------------------------------------------
(* An update of a document that is not there (SpecOps).                    *)

\* a reply to an update is sent in this step, by the tracker the handler
\* returned after the provider's update, or by a finishing task
UpdateAnswered ==
    /\ Len(replies') = Len(replies) + 1
    /\ replies'[Len(replies')].type = "update"
    /\ \/ replies'[Len(replies')].by = "task"
       \/ /\ replies'[Len(replies')].by = "tracker"
          /\ last'.calls # <<>>
          /\ last'.calls[Len(last'.calls)].call = "update"

\* the provider's update succeeded and found no document to update
UpdatedNothing(response) == ~hasError(response) /\ response.existingTimestamp = 0

\* C36: an update, with or without an executor, whose document the provider
\* did not find: the reply is OK with old timestamp 0, and the not-found
\* counter of the updates goes up by one.
C36_UpdateNotFoundCounted ==
    [][UpdateAnswered =>
        LET r == replies'[Len(replies')]
            response == RemoveResponse
        IN  UpdatedNothing(response) =>
                /\ r.code = "OK"
                /\ r.body = [oldTimestamp |-> 0]
                /\ notFound'.update = notFound.update + 1
    ]_vars

\* what holds of it: the reply is OK with the old timestamp the provider
\* gave, 0 when there was no document, or carries the provider's error; no
\* counter is touched
C36_UpdateReplied ==
    [][UpdateAnswered =>
        LET r == replies'[Len(replies')]
            response == RemoveResponse
        IN  /\ r.code = convertErrorCode(response)
            /\ r.message = response.errorMessage
            /\ ~hasError(response) => r.body = [oldTimestamp |-> response.existingTimestamp]
            /\ notFound' = notFound
    ]_vars

\* the one command handled was an update, its finishing task replied OK with
\* old timestamp 0, and nothing was counted
C36_Witness ==
    /\ executor
    /\ Len(replies) = 1
    /\ done = 1
    /\ replies[1].type = "update"
    /\ replies[1].by = "task"
    /\ replies[1].code = "OK"
    /\ replies[1].body = [oldTimestamp |-> 0]
    /\ notFound = NoneNotFound


-----------------------------------------------------------------------------
(* One reply for every put, remove and update (SpecOps).                   *)

\* the commands whose asynchronous call is with the provider, or whose
\* finishing task waits in a lane
WithProvider == {p.id : p \in pending}

InLane == {lanes[l][i].id : <<l, i>> \in {x \in (DOMAIN lanes) \X (1..MaxCommands) :
                                              x[2] <= Len(lanes[x[1]])}}

\* C38: a put, remove or update never has more than one reply.  Without an
\* executor every command handled has its one reply, sent by the tracker (or
\* by processMessage after an exception) in the step that handled it.  With
\* an executor a command that reached the provider call is handed to the
\* finishing task: the dispatcher sends nothing for it, it has no reply while
\* the call is with the provider or the task waits in its lane, and its one
\* reply is sent by the task, in a step that takes the task, with the
\* provider's result, from its lane.
C38_OneReplyPerMutation ==
    /\ [](\A id \in 1..done :
            /\ Cardinality(RepliesTo(id)) <= 1
            /\ Cardinality(RepliesTo(id)) = 1 <=> id \notin (WithProvider \cup InLane)
            /\ WithProvider \cap InLane = {})
    /\ [](~executor =>
            /\ WithProvider \cup InLane = {}
            /\ \A i \in DOMAIN replies : replies[i].by # "task")
    /\ []((MutationHandled /\ MutationIssued) =>
            IF executor
            THEN /\ last.how = "submitted"
                 /\ \A i \in RepliesTo(last.id) : replies[i].by = "task"
            ELSE /\ last.how = "returned"
                 /\ \A i \in RepliesTo(last.id) : replies[i].by = "tracker")
    /\ [][\A i \in (DOMAIN replies') \ (DOMAIN replies) :
            IF replies'[i].by = "task"
            THEN /\ done' = done
                 /\ replies'[i].id \in InLane
                 /\ replies'[i].id \notin WithProvider
                 /\ \E l \in DOMAIN lanes :
                        /\ lanes[l] # <<>>
                        /\ Head(lanes[l]).id = replies'[i].id
                        /\ replies'[i].code = convertErrorCode(Head(lanes[l]).response)
            ELSE /\ done' = done + 1
                 /\ replies'[i].id = done'
                 /\ last'.how \in {"returned", "threw"}
         ]_vars

\* with an executor, the first command has been answered by its finishing
\* task while the second is still with the provider and has no reply
C38_Witness ==
    /\ executor
    /\ done = 2
    /\ Len(replies) = 1
    /\ replies[1].by = "task"
    /\ replies[1].id = 1
    /\ WithProvider = {2}
    /\ RepliesTo(2) = {}


-----------------------------------------------------------------------------
(* A delete of a bucket that is being merged (SpecBucketOps).              *)

\* the handled delete found its bucket being merged
DeleteWhileMerging ==
    /\ last.op = "delete"
    /\ last.calls[1].call = "isMerging"
    /\ last.calls[1].result

\* the handled delete was refused: the provider was not told to delete
DeleteRefused == last.op = "delete" /\ CallsAt({"deleteBucket"}) = {}

\* C39: a delete of a bucket that is being merged clears the merge status
\* of the bucket with the code ABORTED, once, before it asks the provider for
\* the bucket's info, whether the delete is then refused or not; a delete of
\* a bucket that is not being merged clears nothing.  A refused delete leaves
\* the database as it was and calls nothing after the check.
C39_MergeAbortedBeforeCheck ==
    last.op = "delete" =>
        /\ last.calls[1] = Call("isMerging", <<last.cmd.bucket>>, last.calls[1].result)
        /\ IF DeleteWhileMerging
           THEN /\ CallsAt({"clearMergeStatus"}) = {2}
                /\ last.calls[2].args = <<last.cmd.bucket, "ABORTED">>
                /\ CallsAt({"getBucketInfo"}) = {3}
           ELSE /\ CallsAt({"clearMergeStatus"}) = {}
                /\ CallsAt({"getBucketInfo"}) = {2}
        /\ \A i \in CallsAt({"deleteBucket"}) : i > Max(CallsAt({"getBucketInfo"}))
        /\ DeleteRefused =>
            /\ index = last.pre.index
            /\ Len(last.calls) = Max(CallsAt({"getBucketInfo"}))

\* a delete of a bucket that was being merged was refused: the bucket has
\* its entry as before, and its merge has been aborted
C39_Witness ==
    /\ DeleteWhileMerging
    /\ DeleteRefused
    /\ DeleteMismatch
    /\ LastKey \in DOMAIN index
    /\ index = last.pre.index
    /\ CallsAt({"clearMergeStatus"}) # {}


-----------------------------------------------------------------------------
(* A caller of flush() is released (FairLoop).                             *)

\* C40: with a loop that keeps making progress, a thread waiting in flush()
\* is woken and returns.  flush() tests the closed flag under the monitor:
\* called after the loop has exited it returns without waiting, otherwise it
\* waits; a waiting caller is woken only by the broadcast at the end of an
\* iteration or after the while, and once the loop has exited nobody is left
\* waiting.
C40_FlushReleased ==
    /\ (loop.flush = "waiting") ~> (loop.flush = "returned")
    /\ [](loop.at = "exited" => (loop.closed /\ loop.flush # "waiting"))
    /\ [][(loop.flush = "out" /\ loop'.flush # "out") =>
            loop'.flush = (IF loop.closed THEN "returned" ELSE "waiting")]_vars
    /\ [][(loop.flush = "waiting" /\ loop'.flush # "waiting") =>
            (loop.at \in {"broadcast", "closing"} /\ loop'.flush = "woken"
             /\ loop'.at \in {"test", "exited"})]_vars

\* flush() was called after the while was left and before the flag was set:
\* the caller waits, and only the broadcast after the while can wake it
C40_Witness ==
    /\ loop.flush = "waiting"
    /\ loop.at = "closing"
    /\ ~loop.closed

=============================================================================
